---- MODULE Spec2Model ----
(***************************************************************************)
(* Model of the InstaReaper download queue engine (electron/download-queue *)
(* DownloadQueue) together with the parts of the Torbox client whose       *)
(* results it consumes (electron/torbox-api.ts).                           *)
(*                                                                         *)
(* The Node event loop runs one callback at a time: every action below is  *)
(* one synchronous run of a handler, from its entry (or from the point     *)
(* where an await resumes) to its next await or return.                    *)
(***************************************************************************)
EXTENDS Integers, Sequences, FiniteSets, TLC

(* ---------------------------------------------------------------- bounds *)
\* Each specification fixes its limits in the variable lim (see Limits).
\* Spec: one item, the environment answering with everything the model knows
SoloItems   == 1   \* items ever added to the queue
SoloTimers  == 1   \* interval timers whose closures are alive at one time
SoloTicks   == 1   \* poll ticks of one timer awaiting at one time
SoloCreates == 1   \* create-job requests of one item in flight at one time
SoloRetry   == 1   \* retryItem calls that succeed in one run
\* SpecPair: two items, the environment answering from the Lean sets
PairItems   == 2
PairTimers  == 1
PairTicks   == 1
PairCreates == 1
PairRetry   == 1
\* SpecAdd: two items made from different partial items at different times
AddItems    == 2
AddTimers   == 1
AddTicks    == 1
AddCreates  == 1
AddRetry    == 0
\* SpecRestart: two items, and the application may be closed and started again
RestartItems   == 2
RestartTimers  == 1
RestartTicks   == 1
RestartCreates == 1
RestartRetry   == 1
\* SpecNoLinks: one item, whose timer counts its NO_LINKS ticks in a row
NoLinksItems   == 1
NoLinksTimers  == 1
NoLinksTicks   == 1
NoLinksCreates == 1
NoLinksRetry   == 0
NoLinksMarks   == 2

OverlapItems   == 1
OverlapTimers  == 1
OverlapTicks   == 2
OverlapCreates == 1
OverlapRetry   == 0

SiblingItems   == 2
SiblingTimers  == 2
SiblingTicks   == 1
SiblingCreates == 1
SiblingRetry   == 1

SweepItems   == 2
SweepTimers  == 1
SweepTicks   == 1
SweepCreates == 1
SweepRetry   == 1

\* one item claimed up to twice before its first create-job request returns
OrphanItems   == 1
OrphanTimers  == 2
OrphanTicks   == 1
OrphanCreates == 2
OrphanRetry   == 1
\* SpecHttp: one request at a time, with up to this many configured retries
MaxConfiguredRetries == 7

(* ----------------------------------------------------------- value space *)
\* JavaScript's undefined, for the optional fields of QueueItem
None == "undefined"

Statuses == {"pending", "active", "downloading", "completed", "failed", "paused"}

\* Numbers are held in thousandths, so that rounding to two decimals shows.
Pct(n) == n * 1000

CancelMessage == "Cancelled by user"
NoKeyMessage == "Torbox API key not configured"
DefaultFailedMessage == "Torbox reported that the job failed"
RemoteCancelledMessage == "Torbox job was cancelled"

\* Identifiers the remote service hands out.
JobHashes == {"h1", "h2"}
JobIds == {"71"}

(* ------------------------------------------------ torbox-api.ts, helpers *)
\* A raw JSON value of a job record: a number, a string, or absent.
Num(v) == [t |-> "number", v |-> v, s |-> ""]
Str(s) == [t |-> "string", v |-> 0, s |-> s]
Absent == [t |-> "absent", v |-> 0, s |-> ""]

\* Number(s) for a string: the strings that parse, and their values.
NumericStrings == {"40.13", "", "7", "007", "8"}
NumberOfString(s) ==
  CASE s = "40.13" -> 40130
    [] s \in {"7", "007"} -> 7000
    [] s = "8" -> 8000
    [] OTHER -> 0

\* toNumber: null is [null |-> TRUE], a finite number n is [null |-> FALSE, v |-> n]
toNumber(value) ==
  IF value.t = "number" THEN [null |-> FALSE, v |-> value.v]
  ELSE IF value.t = "string" /\ value.s \in NumericStrings
       THEN [null |-> FALSE, v |-> NumberOfString(value.s)]
       ELSE [null |-> TRUE, v |-> 0]

\* Math.round(numeric * 100) / 100 on a non-negative number in thousandths
Round2(v) == ((v + 5) \div 10) * 10

clampProgressNoUpper(value) ==
  LET numeric == toNumber(value) IN
  IF numeric.null THEN 0
  ELSE IF numeric.v < 0 THEN 0
  ELSE Round2(numeric.v)

clampProgress(value) ==
  LET numeric == toNumber(value) IN
  IF numeric.null THEN 0
  ELSE IF numeric.v < 0 THEN 0
  ELSE IF numeric.v > Pct(100) THEN Pct(100)
  ELSE Round2(numeric.v)

\* The remote error the model lets a Torbox call fail with, and NO_LINKS.
ServerError == [code |-> "TORBOX_SERVER_ERROR", message |-> "Torbox server error"]
NoLinksError == [code |-> "TORBOX_NO_LINKS",
                 message |-> "Torbox has not generated downloadable links yet"]

formatTorboxError(error) == error.message \o " (" \o error.code \o ")"

\* The message unwrapTorboxResult throws for a failed result.
UnwrapMessage(error, context) == context \o ": " \o formatTorboxError(error)

Max(a, b) == IF a >= b THEN a ELSE b


(* ---------------------------------------- torbox-api.ts, makeRequest *)
MAX_RETRIES == 3
INITIAL_RETRY_DELAY_MS == 500
RETRYABLE_STATUS_CODES == {408, 425, 429, 500, 502, 503, 504}
\* the ceiling of expBackoff, in ms
BackoffCeiling == 10000

Min(a, b) == IF a <= b THEN a ELSE b

RECURSIVE Pow2(_)
\* Math.pow(2, n) for a natural n
Pow2(n) == IF n = 0 THEN 1 ELSE 2 * Pow2(n - 1)

expBackoffUncapped(initialDelay, attempt) == initialDelay * Pow2(attempt)

expBackoff(initialDelay, attempt) == Min(initialDelay * Pow2(attempt), BackoffCeiling)

\* config.apiKey?.trim(), on the keys the model configures
TrimNothing(s) == s

Trim(s) == IF s = "   " THEN "" ELSE s

\* A JSON value found in a field of a response body. a: the elements of an
\* array; m, d: the string (or None) under 'message' and 'detail' of an object.
JAbsent == [t |-> "absent", s |-> "", a |-> <<>>, m |-> None, d |-> None]
JNull == [t |-> "null", s |-> "", a |-> <<>>, m |-> None, d |-> None]
JText(s) == [t |-> "string", s |-> s, a |-> <<>>, m |-> None, d |-> None]
JArray(a) == [t |-> "array", s |-> "", a |-> a, m |-> None, d |-> None]
JObject(message, detail) == [t |-> "object", s |-> "", a |-> <<>>, m |-> message, d |-> detail]
\* the elements of an array: a string or a number
EText(s) == [t |-> "string", s |-> s]
ENumber == [t |-> "number", s |-> ""]

\* safeJsonParse(text): undefined for an empty text, the text itself when it is
\* not JSON, else the parsed object with its fields success, detail, error,
\* message and data (data: whether it satisfies the endpoint's schema)
EmptyBody ==
  [t |-> "empty", text |-> "", success |-> "absent", detail |-> JAbsent,
   error |-> JAbsent, message |-> JAbsent, data |-> "absent"]
TextBody(text) ==
  [t |-> "text", text |-> text, success |-> "absent", detail |-> JAbsent,
   error |-> JAbsent, message |-> JAbsent, data |-> "absent"]
ObjectBody(success, detail, error, message, data) ==
  [t |-> "object", text |-> "", success |-> success, detail |-> detail,
   error |-> error, message |-> message, data |-> data]

\* a ?? b on JSON values: null and undefined are passed over
Coalesce(a, b) == IF a.t \in {"absent", "null"} THEN b ELSE a

\* candidate.find(item => typeof item === 'string') ?? candidate[0], kept only
\* when it is a string
FirstString(a) ==
  LET strings == {i \in 1..Len(a) : a[i].t = "string"}
  IN IF strings = {} THEN None
     ELSE a[CHOOSE i \in strings : \A j \in strings : i <= j].s

\* extractDetail(body): a string, or None for undefined
extractDetail(body) ==
  IF body.t # "object"
  THEN IF body.t = "text" THEN body.text ELSE None
  ELSE LET candidate == Coalesce(body.detail, Coalesce(body.error, body.message))
       IN CASE candidate.t = "array" -> FirstString(candidate.a)
            [] candidate.t = "string" -> candidate.s
            [] candidate.t = "object" ->
                 IF candidate.m # None THEN candidate.m ELSE candidate.d
            [] OTHER -> None

\* TorboxEnvelopeSchema.parse accepts an object with a boolean success and an
\* error that is a string, null or left out
EnvelopeValid(body) ==
  /\ body.t = "object"
  /\ body.success \in {"true", "false"}
  /\ body.error.t \in {"absent", "null", "string"}

\* ... and gives back the keys of the schema only: z.object strips the others
Envelope(body) == [body EXCEPT !.message = JAbsent]

\* TorboxError: code, HTTP status (NoStatus when it has none) and message
NoStatus == 0 - 1
NoError == [code |-> "none", status |-> NoStatus, message |-> ""]

mapStatusToCodeNoRateLimit(status) ==
  IF status = 401 THEN "TORBOX_UNAUTHORIZED"
  ELSE IF status = 403 THEN "TORBOX_FORBIDDEN"
  ELSE IF status = 404 THEN "TORBOX_NOT_FOUND"
  ELSE IF status >= 500 THEN "TORBOX_SERVER_ERROR"
  ELSE IF status >= 400 THEN "TORBOX_BAD_REQUEST"
  ELSE "TORBOX_UNKNOWN_ERROR"

mapStatusToCode(status) ==
  IF status = 401 THEN "TORBOX_UNAUTHORIZED"
  ELSE IF status = 403 THEN "TORBOX_FORBIDDEN"
  ELSE IF status = 404 THEN "TORBOX_NOT_FOUND"
  ELSE IF status = 429 THEN "TORBOX_RATE_LIMITED"
  ELSE IF status >= 500 THEN "TORBOX_SERVER_ERROR"
  ELSE IF status >= 400 THEN "TORBOX_BAD_REQUEST"
  ELSE "TORBOX_UNKNOWN_ERROR"

defaultMessageForCode(code) ==
  CASE code = "TORBOX_UNAUTHORIZED" ->
         "Torbox rejected the API key. Verify the key on your Torbox dashboard."
    [] code = "TORBOX_FORBIDDEN" -> "Torbox denied access. Check your account permissions."
    [] code = "TORBOX_NOT_FOUND" -> "The requested Torbox resource could not be found."
    [] code = "TORBOX_RATE_LIMITED" ->
         "Torbox rate limit exceeded. Please wait and try again."
    [] code = "TORBOX_SERVER_ERROR" ->
         "Torbox encountered an internal error. Please try again later."
    [] code = "TORBOX_BAD_REQUEST" -> "Torbox rejected the request. Please try again."
    [] OTHER -> "Unexpected Torbox error. Please retry."

\* detail ?? fallback
OrElse(detail, fallback) == IF detail = None THEN fallback ELSE detail

createErrorFromResponse(status, body) ==
  [code |-> mapStatusToCode(status), status |-> status,
   message |-> OrElse(extractDetail(body), defaultMessageForCode(mapStatusToCode(status)))]

AuthMissingError ==
  [code |-> "TORBOX_AUTH_MISSING", status |-> NoStatus,
   message |-> "Torbox API key is not configured. Add it in Settings > Torbox API Configuration."]

UnsuccessfulMessage == "Torbox returned an unsuccessful response"

\* the error thrown for an envelope with success: false
UnsuccessfulError(envelope) ==
  [code |-> "TORBOX_BAD_REQUEST", status |-> 200,
   message |-> OrElse(extractDetail(envelope), UnsuccessfulMessage)]

\* the error the catch block makes of anything that is not a TorboxAPIError
NetworkErrorOf(message) ==
  [code |-> "TORBOX_NETWORK_ERROR", status |-> NoStatus, message |-> message]

FetchFailedMessage == "fetch failed"
ZodMessage == "invalid_type"

shouldRetryError(error) ==
  IF error.code \in {"TORBOX_NETWORK_ERROR", "TORBOX_RATE_LIMITED", "TORBOX_SERVER_ERROR"}
  THEN TRUE
  ELSE IF error.status # NoStatus THEN error.status \in RETRYABLE_STATUS_CODES
       ELSE FALSE

\* response.ok
ResponseOk(status) == status >= 200 /\ status <= 299

\* What one turn of the loop of makeRequest makes of the outcome of fetch, in
\* attempt number attempt: return the data, throw the error, or wait and go
\* round again. threw: fetch or response.text() rejected.
Turn(response, attempt, maxRetries) ==
  LET retryIf(cond, error) ==
        [next |-> IF attempt < maxRetries /\ cond THEN "retry" ELSE "throw",
         error |-> error]
  IN IF response.threw
     THEN retryIf(TRUE, NetworkErrorOf(FetchFailedMessage))
     ELSE IF ~ResponseOk(response.status)
     THEN LET error == createErrorFromResponse(response.status, response.body)
          IN retryIf(shouldRetryError(error), error)
     ELSE IF ~EnvelopeValid(response.body)
     THEN retryIf(TRUE, NetworkErrorOf(ZodMessage))
     ELSE IF Envelope(response.body).success = "false"
     THEN LET error == UnsuccessfulError(Envelope(response.body))
          IN retryIf(shouldRetryError(error), error)
     ELSE IF response.body.data = "invalid"
     THEN retryIf(TRUE, NetworkErrorOf(ZodMessage))
     ELSE [next |-> "return", error |-> NoError]

\* no call of the normalizer or resolver under way
NoWork == [pc |-> "idle"]

\* no request under way
NoRequest ==
  [pc |-> "idle", apiKey |-> "", maxRetries |-> 0, attempt |-> 0, fetches |-> 0,
   waits |-> <<>>, error |-> NoError, lastError |-> NoError, ok |-> FALSE,
   all503 |-> FALSE]

(* ------------------------------------------------------------------ state *)
VARIABLES
  queue,            \* DownloadQueue.queue: the ordered list of QueueItem
  activeDownloads,  \* DownloadQueue.activeDownloads: item id -> timer (0: no entry)
  store,            \* the list persisted under the key 'downloadQueue'
  timers,           \* the setInterval timers created by processItem, with their
                    \* pollReference and the poll ticks of each that are awaiting
  creates,          \* per item, the processItem calls awaiting addUrl
  ret,              \* the last public call and the value it returned
  http,             \* the request makeRequest is carrying out (torbox-api.ts)
  call,             \* the call of the job normalizer or resolver under way
  lim               \* the limits of the specification being checked (never changes)

vars == <<queue, activeDownloads, store, timers, creates, ret, http, call, lim>>

ItemIds == 1..lim.items
Slots == 1..lim.timers
\* ids a caller may pass: an id no item has yet is an unknown id
CallIds == 1..lim.items

NoCall == [op |-> "none", arg |-> 0, val |-> FALSE]
\* Specifications that do not look at return values leave ret at NoCall.
Call(op, arg, val) == IF lim.calls THEN [op |-> op, arg |-> arg, val |-> val] ELSE NoCall

\* A timer slot nothing refers to any more.
\* noLinks counts the ticks of the timer that ended at the return of line 300
\* (TORBOX_NO_LINKS) one after the other, up to lim.marks.
NoTimer == [item |-> 0, jobId |-> None, jobHash |-> None, live |-> FALSE,
            nStatus |-> 0, nLinks |-> 0, nDownload |-> 0, noLinks |-> 0]

InFlight(t) == t.nStatus + t.nLinks + t.nDownload

\* A cleared timer whose last tick has finished is unreachable: its slot is reused.
Collect(tm) ==
  [s \in Slots |-> IF ~tm[s].live /\ InFlight(tm[s]) = 0 THEN NoTimer ELSE tm[s]]

FreeSlots(tm) == {s \in Slots : tm[s] = NoTimer}
FirstFree(tm) == CHOOSE s \in FreeSlots(tm) : \A u \in FreeSlots(tm) : s <= u

\* this.queue.find(i => i.id === itemId): the index of the item, 0 when there is none
Find(itemId) ==
  IF \E k \in 1..Len(queue) : queue[k].id = itemId
  THEN CHOOSE k \in 1..Len(queue) :
         /\ queue[k].id = itemId
         /\ \A j \in 1..(k - 1) : queue[j].id # itemId
  ELSE 0

RECURSIVE SumRetries(_, _)
SumRetries(q, n) == IF n = 0 THEN 0 ELSE q[n].retryCount + SumRetries(q, n - 1)
\* the retries made so far, which the limit lim.retry caps
TotalRetries == SumRetries(queue, Len(queue))

\* A field of a Partial<QueueItem> handed to addToQueue: given or left out.
Given(v) == [given |-> TRUE, v |-> v]
NoText == [given |-> FALSE, v |-> ""]
NoList == [given |-> FALSE, v |-> <<>>]
NoNumber == [given |-> FALSE, v |-> 0]

\* field || fallback on a string: undefined and '' are falsy
OrText(field, fallback) == IF field.given /\ field.v # "" THEN field.v ELSE fallback
\* field || [] on an array: every array is truthy
OrList(field) == IF field.given THEN field.v ELSE <<>>

\* The partial items a producer hands over: the url alone; every field, with
\* fields of QueueItem that addToQueue does not read; fields given but empty.
PlainPartial ==
  [url |-> "https://x/y", owner |-> NoText, caption |-> NoText, thumbnail |-> NoText,
   keywords |-> NoList, status |-> NoText, progress |-> NoNumber, jobId |-> NoText]
FullPartial ==
  [url |-> "https://x/z", owner |-> Given("alice"), caption |-> Given("sunset"),
   thumbnail |-> Given("https://x/z.jpg"), keywords |-> Given(<<"sea", "sky">>),
   status |-> Given("completed"), progress |-> Given(Pct(50)), jobId |-> Given("71")]
EmptyPartial ==
  [url |-> "https://x/y", owner |-> Given(""), caption |-> Given(""),
   thumbnail |-> Given(""), keywords |-> Given(<<>>), status |-> NoText,
   progress |-> NoNumber, jobId |-> NoText]

\* new Date().toISOString() at the moments the model lets items be added
FirstStamp == "2024-05-01T10:00:00.000Z"
LaterStamp == "2024-05-01T10:00:02.000Z"

NewItemSpread(id, item, now) ==
  [id |-> id, url |-> item.url, owner |-> OrText(item.owner, "unknown"),
   caption |-> OrText(item.caption, ""), thumbnail |-> OrText(item.thumbnail, ""),
   keywords |-> OrList(item.keywords),
   status |-> IF item.status.given THEN item.status.v ELSE "pending",
   progress |-> IF item.progress.given THEN item.progress.v ELSE 0,
   addedAt |-> now, error |-> None,
   jobId |-> IF item.jobId.given THEN item.jobId.v ELSE None,
   jobHash |-> None, localPath |-> None, completedAt |-> None,
   retryCount |-> 0]

\* the element addToQueue maps a partial item to; now: the clock's reading
NewItem(id, item, now) ==
  [id |-> id, url |-> item.url, owner |-> OrText(item.owner, "unknown"),
   caption |-> OrText(item.caption, ""), thumbnail |-> OrText(item.thumbnail, ""),
   keywords |-> OrList(item.keywords), status |-> "pending", progress |-> 0,
   addedAt |-> now, error |-> None,
   jobId |-> None, jobHash |-> None, localPath |-> None, completedAt |-> None,
   retryCount |-> 0]

\* rich: whether the environment (settings, remote service, file system) answers
\* with everything the model knows, or with the short list of the Lean sets below
\* inputs, stamps: the partial items the producer hands over and the readings of
\* the clock; marks: how many NO_LINKS ticks in a row a timer counts
Limits(items, tm, ticks, cr, retry, calls, rich) ==
  [items |-> items, timers |-> tm, ticks |-> ticks, creates |-> cr,
   retry |-> retry, calls |-> calls, rich |-> rich,
   inputs |-> {PlainPartial}, stamps |-> {FirstStamp}, marks |-> 0]

\* the engine after construction with an empty store, no request under way
QueueStart(l) ==
  /\ lim = l
  /\ queue = <<>>
  /\ activeDownloads = [i \in 1..l.items |-> 0]
  /\ store = <<>>
  /\ timers = [s \in 1..l.timers |-> NoTimer]
  /\ creates = [i \in 1..l.items |-> 0]
  /\ ret = NoCall
  /\ http = NoRequest

Start(l) == QueueStart(l) /\ call = NoWork

Init == Start(Limits(SoloItems, SoloTimers, SoloTicks, SoloCreates, SoloRetry, TRUE, TRUE))

InitPair == Start(Limits(PairItems, PairTimers, PairTicks, PairCreates, PairRetry, TRUE, FALSE))

\* the limits l with other inputs, clock readings and marks
With(l, inputs, stamps, marks) ==
  [l EXCEPT !.inputs = inputs, !.stamps = stamps, !.marks = marks]

InitRestart ==
  Start(With(Limits(RestartItems, RestartTimers, RestartTicks, RestartCreates,
                    RestartRetry, FALSE, FALSE),
             {PlainPartial, FullPartial}, {FirstStamp}, 0))

InitNoLinks ==
  Start(With(Limits(NoLinksItems, NoLinksTimers, NoLinksTicks, NoLinksCreates,
                    NoLinksRetry, FALSE, TRUE),
             {PlainPartial}, {FirstStamp}, NoLinksMarks))

InitAdd ==
  Start(With(Limits(AddItems, AddTimers, AddTicks, AddCreates, AddRetry, FALSE, FALSE),
             {PlainPartial, FullPartial, EmptyPartial}, {FirstStamp, LaterStamp}, 0))

\* one item whose timer may fire again while an earlier tick is still awaiting
InitOverlap ==
  Start(Limits(OverlapItems, OverlapTimers, OverlapTicks, OverlapCreates, OverlapRetry,
               FALSE, TRUE))

\* two items, each of which can have its poller while the other has one
InitSibling ==
  Start(Limits(SiblingItems, SiblingTimers, SiblingTicks, SiblingCreates, SiblingRetry,
               FALSE, FALSE))

\* two items under a sweep that keeps ticking
InitOrphan ==
  Start(Limits(OrphanItems, OrphanTimers, OrphanTicks, OrphanCreates, OrphanRetry, FALSE, FALSE))

InitSweep ==
  Start(Limits(SweepItems, SweepTimers, SweepTicks, SweepCreates, SweepRetry, FALSE, FALSE))

(* ------------------------------------------------- clearActiveDownload *)
TimersClearedAll(tm, ad, itemId) ==
  IF ad[itemId] # 0 THEN [s \in Slots |-> [tm[s] EXCEPT !.live = FALSE]] ELSE tm

\* clearInterval on the timer registered for the item, and its entry deleted
TimersCleared(tm, ad, itemId) ==
  IF ad[itemId] # 0 THEN [tm EXCEPT ![ad[itemId]].live = FALSE] ELSE tm

\* the entry left in the registry
RegistryKept(ad, itemId) == ad

RegistryCleared(ad, itemId) == [ad EXCEPT ![itemId] = 0]

(* ------------------------------------------------- handleDownloadError *)
handleDownloadErrorNoSave(q, tm, k, message) ==
  /\ queue' = [q EXCEPT ![k].status = "failed", ![k].error = message]
  /\ timers' = Collect(TimersCleared(tm, activeDownloads, q[k].id))
  /\ activeDownloads' = RegistryCleared(activeDownloads, q[k].id)
  /\ store' = store

\* q, tm: the list and the timers as the failing handler left them so far
handleDownloadError(q, tm, k, message) ==
  /\ queue' = [q EXCEPT ![k].status = "failed", ![k].error = message]
  /\ timers' = Collect(TimersCleared(tm, activeDownloads, q[k].id))
  /\ activeDownloads' = RegistryCleared(activeDownloads, q[k].id)
  /\ store' = queue'

(* -------------------------------------------------------- public calls *)
\* items: the partial items of the call; stamps[j]: the clock when items[j] is mapped
addToQueue(items, stamps) ==
  /\ UNCHANGED <<lim, http, call>>
  /\ Len(queue) + Len(items) <= lim.items
  /\ queue' = queue \o [j \in 1..Len(items) |-> NewItem(Len(queue) + j, items[j], stamps[j])]
  /\ store' = queue'
  /\ ret' = Call("addToQueue", Len(items), TRUE)
  /\ UNCHANGED <<activeDownloads, timers, creates>>

pauseItemUnguarded(itemId) ==
  /\ UNCHANGED <<lim, http, call>>
  /\ LET k == Find(itemId) IN
     IF k = 0
     THEN /\ ret' = Call("pauseItem", itemId, FALSE)
          /\ UNCHANGED <<queue, activeDownloads, store, timers, creates>>
     ELSE /\ queue' = [queue EXCEPT ![k].status = "paused"]
          /\ timers' = Collect(TimersCleared(timers, activeDownloads, itemId))
          /\ activeDownloads' = RegistryCleared(activeDownloads, itemId)
          /\ store' = queue'
          /\ ret' = Call("pauseItem", itemId, TRUE)
          /\ UNCHANGED creates

pauseItem(itemId) ==
  /\ UNCHANGED <<lim, http, call>>
  /\ LET k == Find(itemId) IN
     IF k = 0 \/ (k # 0 /\ queue[k].status \notin {"pending", "active", "downloading"})
     THEN /\ ret' = Call("pauseItem", itemId, FALSE)
          /\ UNCHANGED <<queue, activeDownloads, store, timers, creates>>
     ELSE /\ queue' = [queue EXCEPT ![k].status = "paused"]
          /\ timers' = Collect(TimersCleared(timers, activeDownloads, itemId))
          /\ activeDownloads' = RegistryCleared(activeDownloads, itemId)
          /\ store' = queue'
          /\ ret' = Call("pauseItem", itemId, TRUE)
          /\ UNCHANGED creates

resumeItemKeepError(itemId) ==
  /\ UNCHANGED <<lim, http, call>>
  /\ LET k == Find(itemId) IN
     IF k = 0 \/ (k # 0 /\ queue[k].status # "paused")
     THEN /\ ret' = Call("resumeItem", itemId, FALSE)
          /\ UNCHANGED <<queue, activeDownloads, store, timers, creates>>
     ELSE /\ queue' = [queue EXCEPT ![k].status = "pending"]
          /\ store' = queue'
          /\ ret' = Call("resumeItem", itemId, TRUE)
          /\ UNCHANGED <<activeDownloads, timers, creates>>

resumeItem(itemId) ==
  /\ UNCHANGED <<lim, http, call>>
  /\ LET k == Find(itemId) IN
     IF k = 0 \/ (k # 0 /\ queue[k].status # "paused")
     THEN /\ ret' = Call("resumeItem", itemId, FALSE)
          /\ UNCHANGED <<queue, activeDownloads, store, timers, creates>>
     ELSE /\ queue' = [queue EXCEPT ![k].status = "pending", ![k].error = None]
          /\ store' = queue'
          /\ ret' = Call("resumeItem", itemId, TRUE)
          /\ UNCHANGED <<activeDownloads, timers, creates>>

cancelItemKeepTimer(itemId) ==
  /\ UNCHANGED <<lim, http, call>>
  /\ LET k == Find(itemId) IN
     IF k = 0
     THEN /\ ret' = Call("cancelItem", itemId, FALSE)
          /\ UNCHANGED <<queue, activeDownloads, store, timers, creates>>
     ELSE /\ queue' = [queue EXCEPT ![k].status = "failed", ![k].error = CancelMessage]
          /\ store' = queue'
          /\ ret' = Call("cancelItem", itemId, TRUE)
          /\ UNCHANGED <<activeDownloads, timers, creates>>

cancelItemRemoves(itemId) ==
  /\ UNCHANGED <<lim, http, call>>
  /\ LET k == Find(itemId) IN
     IF k = 0
     THEN /\ ret' = Call("cancelItem", itemId, FALSE)
          /\ UNCHANGED <<queue, activeDownloads, store, timers, creates>>
     ELSE /\ timers' = Collect(TimersCleared(timers, activeDownloads, itemId))
          /\ activeDownloads' = RegistryCleared(activeDownloads, itemId)
          /\ queue' = SelectSeq(queue, LAMBDA item : item.id # itemId)
          /\ store' = queue'
          /\ ret' = Call("cancelItem", itemId, TRUE)
          /\ UNCHANGED creates

cancelItem(itemId) ==
  /\ UNCHANGED <<lim, http, call>>
  /\ LET k == Find(itemId) IN
     IF k = 0
     THEN /\ ret' = Call("cancelItem", itemId, FALSE)
          /\ UNCHANGED <<queue, activeDownloads, store, timers, creates>>
     ELSE /\ timers' = Collect(TimersCleared(timers, activeDownloads, itemId))
          /\ activeDownloads' = RegistryCleared(activeDownloads, itemId)
          /\ queue' = [queue EXCEPT ![k].status = "failed", ![k].error = CancelMessage]
          /\ store' = queue'
          /\ ret' = Call("cancelItem", itemId, TRUE)
          /\ UNCHANGED creates

retryItemKeepJob(itemId) ==
  /\ UNCHANGED <<lim, http, call>>
  /\ LET k == Find(itemId) IN
     IF k = 0 \/ (k # 0 /\ queue[k].status # "failed")
     THEN /\ ret' = Call("retryItem", itemId, FALSE)
          /\ UNCHANGED <<queue, activeDownloads, store, timers, creates>>
     ELSE /\ TotalRetries < lim.retry
          /\ queue' = [queue EXCEPT ![k].status = "pending", ![k].error = None,
                                    ![k].progress = 0,
                                    ![k].retryCount = queue[k].retryCount + 1]
          /\ store' = queue'
          /\ ret' = Call("retryItem", itemId, TRUE)
          /\ UNCHANGED <<activeDownloads, timers, creates>>

retryItem(itemId) ==
  /\ UNCHANGED <<lim, http, call>>
  /\ LET k == Find(itemId) IN
     IF k = 0 \/ (k # 0 /\ queue[k].status # "failed")
     THEN /\ ret' = Call("retryItem", itemId, FALSE)
          /\ UNCHANGED <<queue, activeDownloads, store, timers, creates>>
     ELSE /\ TotalRetries < lim.retry
          /\ queue' = [queue EXCEPT ![k].status = "pending", ![k].error = None,
                                    ![k].progress = 0, ![k].jobId = None,
                                    ![k].jobHash = None,
                                    ![k].retryCount = queue[k].retryCount + 1]
          /\ store' = queue'
          /\ ret' = Call("retryItem", itemId, TRUE)
          /\ UNCHANGED <<activeDownloads, timers, creates>>

(* ------------------------------------------------------ the sweep tick *)
PendingIndexesAndStale ==
  {k \in 1..Len(queue) :
     queue[k].status \in {"pending", "active", "downloading"}
       /\ activeDownloads[queue[k].id] = 0}

PendingIndexesWhenIdle ==
  {k \in 1..Len(queue) :
     /\ queue[k].status = "pending" /\ activeDownloads[queue[k].id] = 0
     /\ \A j \in 1..Len(queue) : queue[j].status \notin {"active", "downloading"}}

\* the indexes of pendingItems, in list order
PendingIndexes ==
  {k \in 1..Len(queue) :
     queue[k].status = "pending" /\ activeDownloads[queue[k].id] = 0}

LastPending == CHOOSE k \in PendingIndexes : \A j \in PendingIndexes : k >= j

\* pendingItems[0]
FirstPending == CHOOSE k \in PendingIndexes : \A j \in PendingIndexes : k <= j

\* One run of the setInterval callback of startProcessing: processQueue, and
\* processItem up to its await of addUrl. keyConfigured: whether the settings
\* hold a non-blank API key at that moment.
processQueue(keyConfigured) ==
  /\ UNCHANGED <<lim, http, call>>
  /\ ret' = NoCall
  /\ IF PendingIndexes = {}
     THEN UNCHANGED <<queue, activeDownloads, store, timers, creates>>
     ELSE LET k == FirstPending
              claimed == [queue EXCEPT ![k].status = "active", ![k].error = None]
          IN IF keyConfigured
             THEN /\ creates[k] < lim.creates
                  /\ queue' = claimed
                  /\ store' = queue'
                  /\ creates' = [creates EXCEPT ![k] = creates[k] + 1]
                  /\ UNCHANGED <<activeDownloads, timers>>
             ELSE /\ handleDownloadError(claimed, timers, k, NoKeyMessage)
                  /\ UNCHANGED creates

(* ------------------------------------- processItem, after await addUrl *)
\* What addUrl resolves to: a job reference (jobId falls back to the hash), or
\* a failure.
CreateJobs ==
  {[jobId |-> "71", jobHash |-> None],
   [jobId |-> "71", jobHash |-> "h1"],
   [jobId |-> "h1", jobHash |-> "h1"]}

CreateFailure == [ok |-> FALSE, job |-> [jobId |-> None, jobHash |-> None]]

CreateResults == {[ok |-> TRUE, job |-> j] : j \in CreateJobs} \cup {CreateFailure}

CreateResultsLean == {[ok |-> TRUE, job |-> [jobId |-> "71", jobHash |-> None]]}

CreateContext == "Failed to create Torbox download job"

addUrlReturns(k, result) ==
  /\ UNCHANGED <<lim, http, call>>
  /\ k \in 1..Len(queue)
  /\ creates[k] > 0
  /\ creates' = [creates EXCEPT ![k] = creates[k] - 1]
  /\ ret' = NoCall
  /\ IF result.ok
     THEN /\ FreeSlots(timers) # {}
          /\ LET s == FirstFree(timers) IN
             /\ queue' = [queue EXCEPT ![k].jobId = result.job.jobId,
                                       ![k].jobHash = result.job.jobHash,
                                       ![k].status = "downloading",
                                       ![k].progress = 0]
             /\ store' = queue'
             /\ timers' = [timers EXCEPT ![s] =
                             [item |-> k, jobId |-> result.job.jobId,
                              jobHash |-> result.job.jobHash, live |-> TRUE,
                              nStatus |-> 0, nLinks |-> 0, nDownload |-> 0,
                              noLinks |-> 0]]
             /\ activeDownloads' = [activeDownloads EXCEPT ![queue[k].id] = s]
     ELSE handleDownloadError(queue, timers, k, UnwrapMessage(ServerError, CreateContext))

(* ------------------------------------------------------- the poll tick *)
\* The interval of a live timer fires: the callback calls getStatus and awaits.
pollFires(s) ==
  /\ UNCHANGED <<lim, http, call>>
  /\ timers[s].live
  /\ InFlight(timers[s]) < lim.ticks
  /\ timers' = [timers EXCEPT ![s].nStatus = timers[s].nStatus + 1]
  /\ ret' = NoCall
  /\ UNCHANGED <<queue, activeDownloads, store, creates>>

\* Raw values of the progress field of the remote job record
RawProgress == {Num(0 - Pct(5)), Num(40125), Num(Pct(250)), Str("40.13"), Str("abc")}

LifecycleStatuses == {"processing", "downloading", "completed", "failed", "cancelled"}

StatusMessages == {None, ""}

\* What getStatus resolves to: a canonical job status (normalizeJob), or a failure.
StatusResults ==
  {[ok |-> TRUE, jobHash |-> h, progress |-> clampProgress(p), status |-> st, message |-> None] :
     h \in JobHashes \cup {None}, p \in RawProgress, st \in LifecycleStatuses}
    \cup {[ok |-> TRUE, jobHash |-> h, progress |-> clampProgress(p), status |-> "failed", message |-> m] :
     h \in JobHashes \cup {None}, p \in RawProgress, m \in StatusMessages}
    \cup {[ok |-> FALSE, jobHash |-> None, progress |-> 0, status |-> "failed", message |-> None]}

StatusResultsLean ==
  {[ok |-> TRUE, jobHash |-> None, progress |-> clampProgress(Num(40125)), status |-> st,
    message |-> None] : st \in {"downloading", "completed", "failed"}}

StatusContext == "Failed to retrieve Torbox job status"

\* item.progress after a poll observed the given progress
PolledProgressLatest(current, observed) == observed

PolledProgress(current, observed) == Max(current, observed)

getStatusReturns(s, result) ==
  /\ UNCHANGED <<lim, http, call>>
  /\ timers[s].nStatus > 0
  /\ ret' = NoCall
  /\ UNCHANGED creates
  /\ LET k == timers[s].item
         done == [timers EXCEPT ![s].nStatus = timers[s].nStatus - 1]
     IN
     IF ~result.ok
     THEN handleDownloadError(queue, done, k, UnwrapMessage(ServerError, StatusContext))
     ELSE LET rotated == result.jobHash # None /\ result.jobHash # queue[k].jobHash
              q1 == [queue EXCEPT
                       ![k].jobHash = IF rotated THEN result.jobHash ELSE queue[k].jobHash,
                       ![k].progress = PolledProgress(queue[k].progress, result.progress)]
              t1 == IF rotated THEN [done EXCEPT ![s].jobHash = result.jobHash] ELSE done
          IN CASE result.status = "completed" ->
                    /\ queue' = q1
                    /\ store' = queue'
                    /\ timers' = [t1 EXCEPT ![s].nLinks = t1[s].nLinks + 1]
                    /\ UNCHANGED activeDownloads
               [] result.status = "failed" ->
                    handleDownloadError(q1, t1, k,
                      IF result.message # None THEN result.message ELSE DefaultFailedMessage)
               [] result.status = "cancelled" ->
                    handleDownloadError(q1, t1, k, RemoteCancelledMessage)
               [] OTHER ->
                    /\ queue' = q1
                    /\ store' = queue'
                    /\ timers' = Collect([t1 EXCEPT ![s].noLinks = 0])
                    /\ UNCHANGED activeDownloads

\* What getFileLinks resolves to: a non-empty link list, NO_LINKS, or another failure
LinksResults == {"links", "no_links", "error"}

\* the error of a failed getFileLinks result
LinksError(result) == IF result = "no_links" THEN NoLinksError ELSE ServerError

NoLinksYetNever(error) == FALSE

\* linksResult.error.code === 'TORBOX_NO_LINKS': the tick returns and changes nothing
NoLinksYet(error) == error.code = "TORBOX_NO_LINKS"

DownloadDirMissingMessage == "DOWNLOAD_DIR_MISSING: Choose a download folder in Settings"

\* dirConfigured: whether requireDownloadDir finds a download folder
getFileLinksReturns(s, result, dirConfigured) ==
  /\ UNCHANGED <<lim, http, call>>
  /\ timers[s].nLinks > 0
  /\ ret' = NoCall
  /\ UNCHANGED creates
  /\ LET k == timers[s].item
         done == [timers EXCEPT ![s].nLinks = timers[s].nLinks - 1]
     IN CASE result # "links" /\ NoLinksYet(LinksError(result)) ->
               /\ timers' = Collect([done EXCEPT ![s].noLinks =
                                        IF done[s].noLinks < lim.marks
                                        THEN done[s].noLinks + 1 ELSE done[s].noLinks])
               /\ UNCHANGED <<queue, activeDownloads, store>>
          [] result # "links" /\ ~NoLinksYet(LinksError(result)) ->
               handleDownloadError(queue, done, k, formatTorboxError(LinksError(result)))
          [] result = "links" ->
               IF dirConfigured
               THEN /\ timers' = [done EXCEPT ![s].nDownload = done[s].nDownload + 1]
                    /\ UNCHANGED <<queue, activeDownloads, store>>
               ELSE handleDownloadError(queue, done, k, DownloadDirMissingMessage)

DownloadFailedMessage == "Failed to download from Torbox: 500 Internal Server Error"

downloadFileReturnsNoPath(s, ok) ==
  /\ UNCHANGED <<lim, http, call>>
  /\ timers[s].nDownload > 0
  /\ ret' = NoCall
  /\ UNCHANGED creates
  /\ LET k == timers[s].item
         done == [timers EXCEPT ![s].nDownload = timers[s].nDownload - 1]
     IN IF ok
        THEN /\ queue' = [queue EXCEPT ![k].status = "completed",
                                       ![k].completedAt = "now",
                                       ![k].progress = Pct(100)]
             /\ timers' = Collect(TimersCleared(done, activeDownloads, queue[k].id))
             /\ activeDownloads' = RegistryCleared(activeDownloads, queue[k].id)
             /\ store' = queue'
        ELSE handleDownloadError(queue, done, k, DownloadFailedMessage)

\* downloadFile from its first await (mkdir, fetch, arrayBuffer, the two
\* writeFile calls touch no engine state) to the end of the tick
downloadFileReturns(s, ok) ==
  /\ UNCHANGED <<lim, http, call>>
  /\ timers[s].nDownload > 0
  /\ ret' = NoCall
  /\ UNCHANGED creates
  /\ LET k == timers[s].item
         done == [timers EXCEPT ![s].nDownload = timers[s].nDownload - 1]
     IN IF ok
        THEN /\ queue' = [queue EXCEPT ![k].localPath = "file",
                                       ![k].status = "completed",
                                       ![k].completedAt = "now",
                                       ![k].progress = Pct(100)]
             /\ timers' = Collect(TimersCleared(done, activeDownloads, queue[k].id))
             /\ activeDownloads' = RegistryCleared(activeDownloads, queue[k].id)
             /\ store' = queue'
        ELSE handleDownloadError(queue, done, k, DownloadFailedMessage)

(* ------------------------------------------- the store and a restart *)
ItemFields == {"id", "url", "owner", "caption", "thumbnail", "keywords", "status",
               "progress", "error", "jobId", "jobHash", "localPath", "addedAt",
               "completedAt", "retryCount"}

OptionalFields == {"error", "jobId", "jobHash", "localPath", "completedAt"}

\* JSON.stringify of an item: a key whose value is undefined is left out
Stringify(item) ==
  [f \in {g \in ItemFields : g \notin OptionalFields \/ item[g] # None} |-> item[f]]

\* reading a field of a parsed object: a missing key reads as undefined
Field(object, f) == IF f \in DOMAIN object THEN object[f] ELSE None

\* this.store.get('downloadQueue', []): the list as the JSON file gives it back
loadQueue(saved) ==
  [k \in 1..Len(saved) |-> [f \in ItemFields |-> Field(Stringify(saved[k]), f)]]

\* The application is closed, at any moment, and started again: every timer and
\* every pending call is gone with the old process, and the constructor loads
\* the list and starts the sweep.
Restart ==
  /\ UNCHANGED <<lim, store, call>>
  /\ activeDownloads' = [i \in ItemIds |-> 0]
  /\ timers' = [s \in Slots |-> NoTimer]
  /\ creates' = [i \in ItemIds |-> 0]
  /\ ret' = NoCall
  /\ http' = NoRequest
  /\ queue' = loadQueue(store)

(* ------------------------------------------------- makeRequest, steps *)
ApiKeys == {"", "   ", "tb_live_key"}

\* options.retry?.maxRetries: left out, or a number
NoRetryOption == 0 - 1
RetryOptions == {NoRetryOption} \cup (0..MaxConfiguredRetries)

\* HTTP statuses of responses that are not ok, and bodies that come with them
ErrorStatuses ==
  {304, 400, 401, 403, 404, 408, 409, 425, 429, 499, 500, 502, 503, 504, 599}
ErrorBodies ==
  {EmptyBody, TextBody("Service Unavailable"),
   ObjectBody("absent", JText("d"), JAbsent, JAbsent, "absent"),
   ObjectBody("absent", JAbsent, JAbsent, JText("m"), "absent")}

\* bodies of envelopes with success: false that satisfy the envelope schema
UnsuccessfulBodies ==
  {ObjectBody("false", JText("d"), JText("e"), JText("m"), "absent"),
   ObjectBody("false", JAbsent, JText("e"), JText("m"), "absent"),
   ObjectBody("false", JAbsent, JAbsent, JText("m"), "absent"),
   ObjectBody("false", JAbsent, JAbsent, JAbsent, "absent"),
   ObjectBody("false", JNull, JText("e"), JAbsent, "absent"),
   ObjectBody("false", JArray(<<ENumber, EText("first")>>), JAbsent, JAbsent, "absent"),
   ObjectBody("false", JObject("nested", None), JText("e"), JAbsent, "absent"),
   ObjectBody("false", JObject(None, "inner"), JAbsent, JAbsent, "absent")}

\* bodies of responses that are ok
OkBodies ==
  UnsuccessfulBodies \cup
  {ObjectBody("true", JAbsent, JAbsent, JAbsent, "valid"),
   ObjectBody("true", JText("d"), JNull, JAbsent, "invalid"),
   ObjectBody("absent", JAbsent, JAbsent, JAbsent, "valid"),
   ObjectBody("false", JAbsent, JObject("nested", None), JAbsent, "absent"),
   EmptyBody, TextBody("<html>")}

\* the outcomes of one fetch: a rejection, or a response
Responses ==
  {[threw |-> TRUE, status |-> NoStatus, body |-> EmptyBody]}
    \cup {[threw |-> FALSE, status |-> s, body |-> b] : s \in ErrorStatuses, b \in ErrorBodies}
    \cup {[threw |-> FALSE, status |-> 200, body |-> b] : b \in OkBodies}

QueueIdle == UNCHANGED <<queue, activeDownloads, store, timers, creates, ret, call, lim>>

\* a step of the normalizer or resolver touches neither the engine nor a request
CallOnly == UNCHANGED <<queue, activeDownloads, store, timers, creates, ret, http, lim>>

\* makeRequest up to its first fetch: the key check, then the first turn of the loop
makeRequest(apiKey, retryOption) ==
  /\ QueueIdle
  /\ http.pc \in {"idle", "done"}
  /\ http' = IF Trim(apiKey) = ""
             THEN [NoRequest EXCEPT !.pc = "done", !.apiKey = apiKey,
                                    !.error = AuthMissingError]
             ELSE [NoRequest EXCEPT
                     !.pc = "fetching", !.apiKey = apiKey,
                     !.maxRetries = IF retryOption = NoRetryOption
                                    THEN MAX_RETRIES ELSE retryOption,
                     !.fetches = 1, !.all503 = TRUE]

\* await fetch (and response.text()) settles: the rest of the turn, up to the
\* return, the throw, or the await of delay
fetchReturns(response) ==
  /\ QueueIdle
  /\ http.pc = "fetching"
  /\ LET turn == Turn(response, http.attempt, http.maxRetries)
         only503 == http.all503 /\ ~response.threw /\ response.status = 503
     IN http' =
          CASE turn.next = "retry" ->
                 [http EXCEPT !.pc = "waiting", !.error = turn.error,
                              !.waits = Append(@, expBackoff(INITIAL_RETRY_DELAY_MS,
                                                             http.attempt)),
                              !.all503 = only503]
            [] turn.next = "throw" ->
                 [http EXCEPT !.pc = "done", !.error = turn.error, !.ok = FALSE,
                              !.lastError = NoError, !.all503 = only503]
            [] turn.next = "return" ->
                 [http EXCEPT !.pc = "done", !.error = NoError, !.ok = TRUE,
                              !.lastError = NoError, !.all503 = FALSE]

\* await delay(...) settles: attempt += 1, lastError = error, continue
delayElapses ==
  /\ QueueIdle
  /\ http.pc = "waiting"
  /\ http' = IF http.attempt + 1 <= http.maxRetries
             THEN [http EXCEPT !.pc = "fetching", !.attempt = @ + 1,
                               !.lastError = http.error, !.fetches = @ + 1]
             ELSE [http EXCEPT !.pc = "done", !.attempt = @ + 1, !.ok = FALSE,
                               !.lastError = NoError]

(* ---------------------------------------------------------- the system *)
\* the lists of partial items the model hands to one addToQueue call
PartialLists == UNION {[1..n -> lim.inputs] : n \in 0..lim.items}

Next ==
  \/ \E items \in PartialLists : \E stamps \in [1..Len(items) -> lim.stamps] :
       addToQueue(items, stamps)
  \/ \E id \in CallIds : pauseItem(id)
  \/ \E id \in CallIds : resumeItem(id)
  \/ \E id \in CallIds : cancelItem(id)
  \/ \E id \in CallIds : retryItem(id)
  \/ \E key \in (IF lim.rich THEN BOOLEAN ELSE {TRUE}) : processQueue(key)
  \/ \E k \in ItemIds, r \in (IF lim.rich THEN CreateResults ELSE CreateResultsLean) :
       addUrlReturns(k, r)
  \/ \E s \in Slots : pollFires(s)
  \/ \E s \in Slots, r \in (IF lim.rich THEN StatusResults ELSE StatusResultsLean) :
       getStatusReturns(s, r)
  \/ \E s \in Slots, r \in (IF lim.rich THEN LinksResults ELSE {"links", "no_links"}),
          dir \in (IF lim.rich THEN BOOLEAN ELSE {TRUE}) :
       getFileLinksReturns(s, r, dir)
  \/ \E s \in Slots, ok \in (IF lim.rich THEN BOOLEAN ELSE {TRUE}) :
       downloadFileReturns(s, ok)

Spec == Init /\ [][Next]_vars

SpecPair == InitPair /\ [][Next]_vars

SpecAdd == InitAdd /\ [][Next]_vars

SpecNoLinks == InitNoLinks /\ [][Next]_vars

SpecOverlap == InitOverlap /\ [][Next]_vars

SpecSibling == InitSibling /\ [][Next]_vars

\* the setInterval callback of startProcessing runs: the interval is never
\* cleared, and the callback awaits nothing before processQueue is called
SweepTick == \E key \in (IF lim.rich THEN BOOLEAN ELSE {TRUE}) : processQueue(key)

\* the user puts an item back into the queue only while fewer than lim.creates
\* of its create-job requests are outstanding
CreatesBelowCap(itemId) ==
  IF Find(itemId) = 0 THEN TRUE ELSE creates[Find(itemId)] < lim.creates

NextSweep ==
  \/ \E items \in PartialLists : \E stamps \in [1..Len(items) -> lim.stamps] :
       addToQueue(items, stamps)
  \/ \E id \in CallIds : pauseItem(id)
  \/ \E id \in CallIds : CreatesBelowCap(id) /\ resumeItem(id)
  \/ \E id \in CallIds : cancelItem(id)
  \/ \E id \in CallIds : CreatesBelowCap(id) /\ retryItem(id)
  \/ SweepTick
  \/ \E k \in ItemIds, r \in CreateResultsLean : addUrlReturns(k, r)
  \/ \E s \in Slots : pollFires(s)
  \/ \E s \in Slots, r \in StatusResultsLean : getStatusReturns(s, r)
  \/ \E s \in Slots, r \in {"links", "no_links"} : getFileLinksReturns(s, r, TRUE)
  \/ \E s \in Slots : downloadFileReturns(s, TRUE)

\* The sweep ticks every 2000 ms for as long as the process runs; no request
\* has to return.
SpecOrphan == InitOrphan /\ [][Next]_vars

SpecSweep == InitSweep /\ [][NextSweep]_vars /\ WF_vars(SweepTick)

NextRestart == Next \/ Restart

SpecRestart == InitRestart /\ [][NextRestart]_vars

NextHttp ==
  \/ \E apiKey \in ApiKeys, retryOption \in RetryOptions : makeRequest(apiKey, retryOption)
  \/ \E response \in Responses : fetchReturns(response)
  \/ delayElapses

SpecHttp == Init /\ [][NextHttp]_vars

(* ------------------------------- torbox-api.ts, normalizeJob: the status *)
\* A string is held as its lower-case form and the set of the positions that
\* are written in upper case; NoWord is undefined.
Word(low, caps) == [t |-> "string", low |-> low, caps |-> caps]
Plain(word) == Word(word, {})
NoWord == [t |-> "absent", low |-> "", caps |-> {}]

toLowerCaseKeepsCase(s) == s

\* String.prototype.toLowerCase
toLowerCase(s) == [s EXCEPT !.caps = {}]

mapStatus(status) ==
  LET normalized == IF status.t = "string" /\ status.low # ""
                    THEN toLowerCase(status) ELSE Plain("")
      includes(words) == \E w \in words : Plain(w) = normalized
  IN IF includes({"completed", "complete", "finished", "done", "success"})
     THEN "completed"
     ELSE IF includes({"failed", "error", "stopped"}) THEN "failed"
     ELSE IF includes({"cancelled", "canceled", "aborted"}) THEN "cancelled"
     ELSE IF includes({"downloading", "download", "running", "active"}) THEN "downloading"
     ELSE IF includes({"processing", "preparing", "transcoding"}) THEN "processing"
     ELSE IF includes({"queued", "queue"}) THEN "queued"
     ELSE IF includes({"pending", "waiting"}) THEN "pending"
     ELSE "processing"

\* job.status ?? job.state ?? job.message ?? 'processing'
statusValue(job) ==
  IF job.status.t # "absent" THEN job.status
  ELSE IF job.state.t # "absent" THEN job.state
  ELSE IF job.message.t # "absent" THEN job.message
  ELSE Plain("processing")

\* the words remote records carry as status: the ones mapStatus knows, and others
StatusWords ==
  {"completed", "complete", "finished", "done", "success", "failed", "error",
   "stopped", "cancelled", "canceled", "aborted", "downloading", "download",
   "running", "active", "processing", "preparing", "transcoding", "queued",
   "queue", "pending", "waiting",
   "seeding", "paused", "unknown", "completed ", "in_progress", "errors", "ok"}

\* the ways a word is written: lower case, capitalized, upper case, last letter
Casings(word) == {{}, {1}, 1..Len(word), {Len(word)}}

StatusTexts == {Word(w, c) : w \in StatusWords, c \in UNION {Casings(v) : v \in StatusWords}}

StatusInputs ==
  {t \in StatusTexts : t.caps \in Casings(t.low)} \cup {Plain(""), NoWord}

\* the records whose status normalizeJob maps
StatusJobs ==
  {[status |-> s, state |-> st, message |-> m] :
     s \in StatusInputs,
     st \in {NoWord, Word("done", {1})},
     m \in {NoWord, Plain("error"), Plain("Download in progress")}}

InitStatus ==
  /\ QueueStart(Limits(SoloItems, SoloTimers, SoloTicks, SoloCreates, SoloRetry, FALSE, FALSE))
  /\ call \in {[pc |-> "ready", op |-> "normalizeJob", job |-> j, status |-> ""] :
                 j \in StatusJobs}

\* normalizeJob, as far as the status of its result goes
normalizeJobStatus ==
  /\ CallOnly
  /\ call.pc = "ready"
  /\ call.op = "normalizeJob"
  /\ call' = [call EXCEPT !.pc = "done", !.status = mapStatus(statusValue(call.job))]

NextStatus == normalizeJobStatus

SpecStatus == InitStatus /\ [][NextStatus]_vars

(* ------------------------------- torbox-api.ts, normalizeJobsPayload *)
\* SpecListing: buckets of at most MaxBucket records
MaxBucket == 2

\* Raw records of a listing. valid: whether the record satisfies TorboxJobSchema
\* (a record with progress: null, or with a number as status, does not).
JobOne == [name |-> "one", valid |-> TRUE]
JobTwo == [name |-> "two", valid |-> TRUE]
JobWeb == [name |-> "web", valid |-> TRUE]
JobBad == [name |-> "bad", valid |-> FALSE]

\* a field of the payload: left out, or an array of records
Missing == [t |-> "missing", list |-> <<>>]
Arr(list) == [t |-> "array", list |-> list]

\* TorboxJobsArraySchema.safeParse(value).success
ValidJobs(value) ==
  value.t = "array" /\ \A i \in 1..Len(value.list) : value.list[i].valid

\* TorboxJobsContainerSchemas[i - 1].safeParse(payload).success
ContainerAccepts(i, payload) ==
  /\ payload.t = "object"
  /\ CASE i = 1 -> ValidJobs(payload.jobs)
       [] i = 2 -> ValidJobs(payload.data)
       [] i = 3 -> \A f \in {"active", "queued", "completed", "downloads"} :
                     payload[f].t = "missing" \/ ValidJobs(payload[f])
       [] i = 4 -> ValidJobs(payload.web_downloads)

\* if (data.f) merged.push(...data.f): an array is truthy, also when empty
Pushed(merged, field) == IF field.t = "array" THEN merged \o field.list ELSE merged

\* merged after the four pushes of the loop body
Merged(payload) ==
  Pushed(Pushed(Pushed(Pushed(<<>>, payload.active), payload.queued),
                payload.completed), payload.downloads)

\* The body of the loop for a schema that accepted the payload: the list it
\* returns, or no return (the loop goes on).
NoReturn == [returns |-> FALSE, list |-> <<>>]
Return(list) == [returns |-> TRUE, list |-> list]
LoopBody(payload) ==
  IF payload.jobs.t = "array" THEN Return(payload.jobs.list)
  ELSE IF payload.data.t = "array" THEN Return(payload.data.list)
  ELSE IF Len(Merged(payload)) > 0 THEN Return(Merged(payload))
  ELSE IF Len(Pushed(Merged(payload), payload.web_downloads)) > 0
       THEN Return(Pushed(Merged(payload), payload.web_downloads))
       ELSE NoReturn

RECURSIVE ContainerLoop(_, _)
\* for (const schema of TorboxJobsContainerSchemas), from schema number i on
ContainerLoop(i, payload) ==
  IF i > 4 THEN NoReturn
  ELSE IF ContainerAccepts(i, payload) /\ LoopBody(payload).returns
       THEN LoopBody(payload)
       ELSE ContainerLoop(i + 1, payload)

\* the payload itself, taken as one record
AsRecord(payload) == [name |-> "payload", valid |-> payload.valid]

normalizeJobsPayload(payload) ==
  IF payload.t = "array" /\ ValidJobs(Arr(payload.items)) THEN payload.items
  ELSE IF ContainerLoop(1, payload).returns THEN ContainerLoop(1, payload).list
  ELSE IF payload.t = "object" /\ payload.valid THEN <<AsRecord(payload)>>
  ELSE <<>>

\* the contents of a bucket: up to MaxBucket good records, or one bad record
RECURSIVE ListsUpTo(_, _)
ListsUpTo(S, n) ==
  IF n = 0 THEN {<<>>}
  ELSE ListsUpTo(S, n - 1) \cup {Append(l, x) : l \in {m \in ListsUpTo(S, n - 1) : Len(m) = n - 1}, x \in S}
Buckets == {Missing} \cup {Arr(l) : l \in ListsUpTo({JobOne, JobTwo}, MaxBucket)} \cup {Arr(<<JobBad>>)}

\* the payloads of a listing: objects with any of the known fields (valid:
\* whether the object's own fields satisfy TorboxJobSchema), and bare arrays
ListingPayloads ==
  {[t |-> "object", items |-> <<>>, valid |-> v, jobs |-> j, data |-> d, active |-> a,
    queued |-> q, completed |-> c, downloads |-> dl, web_downloads |-> w] :
     v \in BOOLEAN, j \in {Missing, Arr(<<JobWeb>>)}, d \in {Missing, Arr(<<JobWeb>>)},
     a \in Buckets, q \in Buckets, c \in Buckets, dl \in Buckets,
     w \in {Missing, Arr(<<JobWeb>>)}}
  \cup
  {[t |-> "array", items |-> l, valid |-> FALSE, jobs |-> Missing, data |-> Missing,
    active |-> Missing, queued |-> Missing, completed |-> Missing,
    downloads |-> Missing, web_downloads |-> Missing] :
     l \in {<<>>, <<JobOne, JobTwo>>, <<JobOne, JobBad>>}}

InitListing ==
  /\ QueueStart(Limits(SoloItems, SoloTimers, SoloTicks, SoloCreates, SoloRetry, FALSE, FALSE))
  /\ call \in {[pc |-> "ready", op |-> "normalizeJobsPayload", payload |-> p, jobs |-> <<>>] :
                 p \in ListingPayloads}

normalizeJobsPayloadCall ==
  /\ CallOnly
  /\ call.pc = "ready"
  /\ call.op = "normalizeJobsPayload"
  /\ call' = [call EXCEPT !.pc = "done", !.jobs = normalizeJobsPayload(call.payload)]

NextListing == normalizeJobsPayloadCall

SpecListing == InitListing /\ [][NextListing]_vars

(* --------------------------------------- torbox-api.ts, extractLinks *)
\* An entry of a container: a string, an object with the fields url, link,
\* download_url and href (in that order in f), or a number. A container that
\* is not an array is an entry itself; NoContainer is a field left out.
StringEntry(s) == [t |-> "string", s |-> s, f |-> <<>>, list |-> <<>>]
ObjectEntry(url, link, download, href) ==
  [t |-> "object", s |-> "", f |-> <<url, link, download, href>>, list |-> <<>>]
NumberEntry == [t |-> "number", s |-> "", f |-> <<>>, list |-> <<>>]
EntryList(list) == [t |-> "array", s |-> "", f |-> <<>>, list |-> list]
NoContainer == [t |-> "missing", s |-> "", f |-> <<>>, list |-> <<>>]

\* a ?? b ?? ... over the fields of an entry: the first that is not left out
RECURSIVE FirstPresent(_, _)
FirstPresent(f, i) ==
  IF i > Len(f) THEN Absent
  ELSE IF f[i].t # "absent" THEN f[i] ELSE FirstPresent(f, i + 1)

\* a TorboxFileLink: its url, and the entry it was made of (raw)
FileLink(url, raw) == [url |-> url, raw |-> raw]

\* toFileLink(entry): the link in a list of its own, or the empty list for null
toFileLink(entry) ==
  IF entry.t = "string"
  THEN IF entry.s = "" THEN <<>> ELSE <<FileLink(entry.s, entry)>>
  ELSE IF entry.t # "object" THEN <<>>
  ELSE LET url == FirstPresent(entry.f, 1)
       IN IF url.t # "string" \/ Trim(url.s) = "" THEN <<>>
          ELSE <<FileLink(url.s, entry)>>

RECURSIVE LinksOfEntries(_, _)
\* the links of the entries of an array container, from entry i on
LinksOfEntries(list, i) ==
  IF i > Len(list) THEN <<>>
  ELSE toFileLink(list[i]) \o LinksOfEntries(list, i + 1)

\* .filter(Boolean): a container left out, or an empty string, is passed over
Truthy(container) ==
  container.t # "missing" /\ ~(container.t = "string" /\ container.s = "")

LinksOfContainer(container) ==
  IF ~Truthy(container) THEN <<>>
  ELSE IF container.t = "array" THEN LinksOfEntries(container.list, 1)
  ELSE toFileLink(container)

\* links after the loop over the containers
Gathered(job) ==
  LinksOfContainer(job.file_links) \o LinksOfContainer(job.links)
    \o LinksOfContainer(job.files) \o LinksOfContainer(job.dataLinks)
    \o LinksOfContainer(job.dataFiles)

\* the job record as raw of a link made of its link or url field
WholeJob == [t |-> "job", s |-> "", f |-> <<>>, list |-> <<>>]

\* links after the two fallbacks to job.link and job.url
WithFallbacks(job) ==
  LET afterLink == IF Len(Gathered(job)) = 0 /\ job.link.t = "string"
                   THEN <<FileLink(job.link.s, WholeJob)>> ELSE Gathered(job)
  IN IF Len(afterLink) = 0 /\ job.url.t = "string"
     THEN <<FileLink(job.url.s, WholeJob)>> ELSE afterLink

DedupedKeepAll(links) == links

RECURSIVE DedupedFrom(_, _, _)
\* the values of the Map after the loop has run over links[i..]: kept holds
\* the links set so far, in insertion order
DedupedFrom(links, i, kept) ==
  IF i > Len(links) THEN kept
  ELSE IF links[i].url = "" \/ \E j \in 1..Len(kept) : kept[j].url = links[i].url
       THEN DedupedFrom(links, i + 1, kept)
       ELSE DedupedFrom(links, i + 1, Append(kept, links[i]))

Deduped(links) == DedupedFrom(links, 1, <<>>)

extractLinks(job) == Deduped(WithFallbacks(job))

\* the containers of the records the model extracts links from
Containers ==
  {NoContainer, EntryList(<<>>), StringEntry("https://a"),
   ObjectEntry(Str("https://b"), Absent, Absent, Absent),
   EntryList(<<ObjectEntry(Str("https://a"), Str("https://c"), Absent, Absent),
               StringEntry("https://a"), StringEntry("https://b")>>),
   EntryList(<<ObjectEntry(Absent, Str("https://b"), Absent, Absent),
               ObjectEntry(Num(5), Str("https://c"), Absent, Absent),
               ObjectEntry(Absent, Absent, Absent, Str("https://c"))>>),
   EntryList(<<StringEntry(""), ObjectEntry(Str("   "), Absent, Absent, Absent),
               NumberEntry>>)}

LinkJobs ==
  {[file_links |-> a, links |-> b, files |-> c, dataLinks |-> d, dataFiles |-> e,
    link |-> l, url |-> u] :
     a \in Containers, b \in Containers, c \in Containers,
     d \in {NoContainer, StringEntry("https://a"),
            EntryList(<<StringEntry("https://d"), StringEntry("https://b")>>)},
     e \in {NoContainer, ObjectEntry(Absent, Absent, Str("https://d"), Absent)},
     l \in {Absent, Str(""), Str("https://t")}, u \in {Absent, Str("https://u")}}

\* the record {links: [...]} made of links that were extracted before
JobOfLinks(links) ==
  [file_links |-> NoContainer,
   links |-> EntryList([i \in 1..Len(links) |->
                          ObjectEntry(Str(links[i].url), Absent, Absent, Absent)]),
   files |-> NoContainer, dataLinks |-> NoContainer, dataFiles |-> NoContainer,
   link |-> Absent, url |-> Absent]

InitLinks ==
  /\ QueueStart(Limits(SoloItems, SoloTimers, SoloTicks, SoloCreates, SoloRetry, FALSE, FALSE))
  /\ call \in {[pc |-> "ready", op |-> "extractLinks", job |-> j, links |-> <<>>,
                again |-> <<>>] : j \in LinkJobs}

\* extractLinks(job)
extractLinksCall ==
  /\ CallOnly
  /\ call.pc = "ready"
  /\ call.op = "extractLinks"
  /\ call' = [call EXCEPT !.pc = "extracted", !.links = extractLinks(call.job)]

\* extractLinks once more, of a record that holds the links just extracted
extractLinksAgain ==
  /\ CallOnly
  /\ call.pc = "extracted"
  /\ call' = [call EXCEPT !.pc = "done",
                          !.again = extractLinks(JobOfLinks(call.links))]

NextLinks == extractLinksCall \/ extractLinksAgain

SpecLinks == InitLinks /\ [][NextLinks]_vars

(* ----------------------------------------- torbox-api.ts, resolveJob *)
\* SpecResolve: an item is polled at most MaxPolls times
MaxPolls == 3

\* String(n) for the numbers job identifiers parse to
StringOfNumber(v) == IF v = 7000 THEN "7" ELSE IF v = 8000 THEN "8" ELSE "0"

\* A raw job record, by its identifier fields: id is firstString(job_id, id,
\* webdl_id) and hash is firstString(job_hash, hash), None for null. mine tells
\* the job the reference was made for from the other jobs of the account; the
\* code cannot see it.
RemoteJob(id, hash, mine) == [id |-> id, hash |-> hash, mine |-> mine]
NoJob == RemoteJob(None, None, FALSE)

extractIdentifiers(job) ==
  [jobId |-> IF job.id # None THEN job.id ELSE job.hash,
   jobHash |-> job.hash,
   jobIdNumeric |-> IF job.id = None THEN [null |-> TRUE, v |-> 0]
                    ELSE toNumber(Str(job.id))]

\* reference.jobId?.trim() and reference.jobHash?.trim(): "" when there is none
Trimmed(value) == IF value = None THEN "" ELSE Trim(value)

MatchesHashOnly(job, reference) ==
  LET identifiers == extractIdentifiers(job)
      targetHash == Trimmed(reference.jobHash)
  IN targetHash # "" /\ identifiers.jobHash = targetHash

\* the test of jobs.find in findMatchingJob
Matches(job, reference) ==
  LET identifiers == extractIdentifiers(job)
      targetId == Trimmed(reference.jobId)
      targetHash == Trimmed(reference.jobHash)
  IN \/ targetId # "" /\ identifiers.jobId = targetId
     \/ /\ targetId # ""
        /\ ~identifiers.jobIdNumeric.null
        /\ StringOfNumber(identifiers.jobIdNumeric.v) = targetId
     \/ targetHash # "" /\ identifiers.jobHash = targetHash

\* findMatchingJob: the first record that matches, or NoJob for null
NoMatch == [found |-> FALSE, job |-> NoJob]
findMatchingJob(jobs, reference) ==
  LET hits == {i \in 1..Len(jobs) : Matches(jobs[i], reference)}
  IN IF hits = {} THEN NoMatch
     ELSE [found |-> TRUE, job |-> jobs[CHOOSE i \in hits : \A j \in hits : i <= j]]

\* the reference addUrl returns for a create response with these identifiers
ReferenceOf(created) ==
  [jobId |-> extractIdentifiers(created).jobId, jobHash |-> extractIdentifiers(created).jobHash]

\* create responses: a numeric id, a numeric id and a hash, a hash alone
CreateResponses ==
  {RemoteJob("7", None, TRUE), RemoteJob("7", "h0", TRUE), RemoteJob(None, "h0", TRUE)}

\* references that do not come from addUrl: no job id, a blank hash
OtherReferences == {[jobId |-> "", jobHash |-> "h0"], [jobId |-> "7", jobHash |-> "   "]}

\* the records the remote service answers with
RemoteJobs ==
  {RemoteJob(id, hash, TRUE) : id \in {None, "7", "007"}, hash \in {None, "h0", "h1", "h2"}}
    \cup {RemoteJob("8", "h9", FALSE)}

\* listings after normalizeJobsPayload: up to two records, one of them mine at most
Listings ==
  {<<>>} \cup {<<j>> : j \in RemoteJobs}
    \cup {<<RemoteJob("8", "h9", FALSE), j>> : j \in RemoteJobs \ {RemoteJob("8", "h9", FALSE)}}
    \cup {<<j, RemoteJob("8", "h9", FALSE)>> : j \in RemoteJobs \ {RemoteJob("8", "h9", FALSE)}}

\* what a makeRequest of resolveJob ends with: data, or a TorboxAPIError
Answer(kind, job, jobs, code) == [kind |-> kind, job |-> job, jobs |-> jobs, code |-> code]
Failures ==
  {Answer("error", NoJob, <<>>, c) :
     c \in {"TORBOX_NOT_FOUND", "TORBOX_SERVER_ERROR", "TORBOX_NETWORK_ERROR"}}
LookupAnswers == {Answer("job", j, <<>>, "") : j \in RemoteJobs} \cup Failures
ListingAnswers == {Answer("jobs", NoJob, l, "") : l \in Listings} \cup Failures

\* the result of resolveJob: a job, null, or a thrown error
NoResult == [kind |-> "none", job |-> NoJob, code |-> ""]
Resolved(job) == [kind |-> "job", job |-> job, code |-> ""]
NotFoundValue == [kind |-> "null", job |-> NoJob, code |-> ""]
Thrown(code) == [kind |-> "error", job |-> NoJob, code |-> code]

\* a poll of the item begins: resolveJob(pollReference) up to its first await
ResolveCall(created, reference, polls) ==
  [pc |-> IF Trimmed(reference.jobHash) # "" THEN "lookup" ELSE "listing",
   op |-> "resolveJob", created |-> created, reference |-> reference,
   steps |-> IF Trimmed(reference.jobHash) # "" THEN <<"lookup">> ELSE <<"listing">>,
   lookup |-> "none", listing |-> <<>>, result |-> NoResult, polls |-> polls]

InitResolve ==
  /\ QueueStart(Limits(SoloItems, SoloTimers, SoloTicks, SoloCreates, SoloRetry, FALSE, FALSE))
  /\ call \in {ResolveCall(c, ReferenceOf(c), 1) : c \in CreateResponses}
                \cup {ResolveCall(NoJob, r, 1) : r \in OtherReferences}

\* the direct lookup by hash answers
lookupReturns(answer) ==
  /\ CallOnly
  /\ call.pc = "lookup"
  /\ call' =
       IF answer.kind = "job"
       THEN [call EXCEPT !.pc = "done", !.lookup = "job", !.result = Resolved(answer.job)]
       ELSE IF answer.code = "TORBOX_NOT_FOUND"
       THEN [call EXCEPT !.pc = "listing", !.lookup = "notFound",
                         !.steps = Append(@, "listing")]
       ELSE [call EXCEPT !.pc = "done", !.lookup = "error", !.result = Thrown(answer.code)]

\* fetchJobs answers: the full listing, normalized
listingReturns(answer) ==
  /\ CallOnly
  /\ call.pc = "listing"
  /\ call' =
       IF answer.kind = "error"
       THEN [call EXCEPT !.pc = "done", !.result = Thrown(answer.code)]
       ELSE LET match == findMatchingJob(answer.jobs, call.reference) IN
            IF match.found
            THEN [call EXCEPT !.pc = "done", !.listing = answer.jobs,
                              !.result = Resolved(match.job)]
            ELSE IF Trimmed(call.reference.jobId) # ""
            THEN [call EXCEPT !.pc = "byId", !.listing = answer.jobs,
                              !.steps = Append(@, "byId")]
            ELSE [call EXCEPT !.pc = "done", !.listing = answer.jobs,
                              !.result = NotFoundValue]

\* the listing filtered by id answers
idListingReturns(answer) ==
  /\ CallOnly
  /\ call.pc = "byId"
  /\ call' =
       IF answer.kind = "error"
       THEN [call EXCEPT !.pc = "done",
                         !.result = IF answer.code = "TORBOX_NOT_FOUND"
                                    THEN NotFoundValue ELSE Thrown(answer.code)]
       ELSE LET fromWebList == findMatchingJob(answer.jobs, call.reference) IN
            [call EXCEPT !.pc = "done",
                         !.result = IF fromWebList.found THEN Resolved(fromWebList.job)
                                    ELSE NotFoundValue]

\* getStatus hands the job to the poll callback, which takes over a new hash
\* into pollReference; three seconds later the timer fires again. A job that
\* was not found, an error, or a record without identifier fails the item and
\* clears the timer.
nextPoll ==
  /\ CallOnly
  /\ call.pc = "done"
  /\ call' =
       IF call.result.kind = "job" /\ extractIdentifiers(call.result.job).jobId # None
            /\ call.polls < MaxPolls
       THEN LET hash == extractIdentifiers(call.result.job).jobHash
                reference == IF hash # None /\ hash # call.reference.jobHash
                             THEN [call.reference EXCEPT !.jobHash = hash]
                             ELSE call.reference
            IN ResolveCall(call.created, reference, call.polls + 1)
       ELSE [call EXCEPT !.pc = "stopped"]

NextResolve ==
  \/ \E answer \in LookupAnswers : lookupReturns(answer)
  \/ \E answer \in ListingAnswers : listingReturns(answer)
  \/ \E answer \in ListingAnswers : idListingReturns(answer)
  \/ nextPoll

SpecResolve == InitResolve /\ [][NextResolve]_vars

(* --------------------------- torbox-api.ts, normalizeJob: the progress *)
\* job.progress ?? job.percent ?? job.downloaded ?? 0: the first alias that
\* the record has, whatever its value
progressValue(job) ==
  IF job.progress # Absent THEN job.progress
  ELSE IF job.percent # Absent THEN job.percent
  ELSE IF job.downloaded # Absent THEN job.downloaded
  ELSE Num(0)

\* values TorboxJobSchema lets a progress alias have: a number, a string, or
\* the field left out
ProgressValues ==
  {Absent, Num(0 - Pct(5)), Num(40125), Num(Pct(250)), Str("40.13"), Str("abc")}

ProgressJobs ==
  {[progress |-> p, percent |-> c, downloaded |-> d] :
     p \in ProgressValues, c \in ProgressValues, d \in ProgressValues}

InitProgress ==
  /\ QueueStart(Limits(SoloItems, SoloTimers, SoloTicks, SoloCreates, SoloRetry, FALSE, FALSE))
  /\ call \in {[pc |-> "ready", op |-> "normalizeJob.progress", job |-> j, progress |-> 0] :
                 j \in ProgressJobs}

\* normalizeJob, as far as the progress of its result goes
normalizeJobProgress ==
  /\ CallOnly
  /\ call.pc = "ready"
  /\ call.op = "normalizeJob.progress"
  /\ call' = [call EXCEPT !.pc = "done",
                          !.progress = clampProgress(progressValue(call.job))]

NextProgress == normalizeJobProgress

SpecProgress == InitProgress /\ [][NextProgress]_vars

(* ------------------------------------- file names and the library (part_000) *)
\* A string of a file name, a URL path or a directory is the sequence of its
\* pieces: ".", "/", " " or a run of letters, digits, "_" and "-".
Dot   == "."
Slash == "/"
Blank == " "

IsWordPiece(p) == p \notin {Dot, Slash, Blank}

\* an optional string: left out (undefined), or the pieces given
NoName == [given |-> FALSE, v |-> <<>>]
Name(t) == [given |-> TRUE, v |-> t]

RECURSIVE trimStart(_)
trimStart(t) == IF t # <<>> /\ Head(t) = Blank THEN trimStart(Tail(t)) ELSE t

RECURSIVE trimEnd(_)
trimEnd(t) ==
  IF t # <<>> /\ t[Len(t)] = Blank THEN trimEnd(SubSeq(t, 1, Len(t) - 1)) ELSE t

\* String.prototype.trim
trim(t) == trimEnd(trimStart(t))

\* the index of the last "." of the string, 0 when it has none
LastDot(t) ==
  IF \E i \in 1..Len(t) : t[i] = Dot
  THEN CHOOSE i \in 1..Len(t) : t[i] = Dot /\ \A j \in (i + 1)..Len(t) : t[j] # Dot
  ELSE 0

\* /\.([a-z0-9]{2,5})$/i on the pathname: a last piece of 2 to 5 letters and
\* digits right after a "."
UrlExtension(path) ==
  LET n == Len(path) IN
  IF /\ n >= 2
     /\ path[n - 1] = Dot
     /\ IsWordPiece(path[n])
     /\ path[n] \notin {"-", "_"}
     /\ Len(path[n]) \in 2..5
  THEN Name(<<path[n]>>)
  ELSE NoName

\* file.url: parsed is FALSE when new URL(file.url) throws
extractExtension(file) ==
  LET fromName == SubSeq(file.filename.v, LastDot(file.filename.v) + 1, Len(file.filename.v))
  IN IF file.filename.given /\ LastDot(file.filename.v) # 0 /\ fromName # <<>>
     THEN Name(fromName)
     ELSE IF file.url.parsed THEN UrlExtension(file.url.pathname) ELSE NoName

\* the pieces up to the first letter, digit, "_" or "-"
RECURSIVE SkipOthers(_)
SkipOthers(t) == IF t # <<>> /\ ~IsWordPiece(Head(t)) THEN SkipOthers(Tail(t)) ELSE t

\* replace(/[^a-z0-9_-]+/gi, '_')
RECURSIVE Slug(_)
Slug(t) ==
  IF t = <<>> THEN <<>>
  ELSE IF IsWordPiece(Head(t)) THEN <<Head(t)>> \o Slug(Tail(t))
  ELSE <<"_">> \o Slug(SkipOthers(t))

resolveFilename(item, file) ==
  IF file.filename.given /\ trim(file.filename.v) # <<>>
  THEN trim(file.filename.v)
  ELSE LET found == extractExtension(file)
           extension == IF found.given THEN found.v ELSE <<"mp4">>
           ownerSlug == Slug(IF item.owner # <<>> THEN item.owner ELSE <<"instareaper">>)
       IN ownerSlug \o <<"-", item.id>> \o <<Dot>> \o extension

\* path.join of the directory and a name without separators
join(dir, name) == dir \o <<Slash>> \o name

\* filePath.replace(/\.[^.]+$/, '.json')
metadataPathOf(filePath) ==
  LET d == LastDot(filePath) IN
  IF d # 0 /\ d < Len(filePath)
  THEN SubSeq(filePath, 1, d - 1) \o <<Dot, "json">>
  ELSE filePath

\* the index of the first ".mp4" of the string, 0 when it has none
FirstMp4(t) ==
  LET at == {i \in 1..(Len(t) - 1) : t[i] = Dot /\ t[i + 1] = "mp4"} IN
  IF at = {} THEN 0 ELSE CHOOSE i \in at : \A j \in at : i <= j

\* t.replace('.mp4', by): the first occurrence only
ReplaceMp4(t, by) ==
  LET i == FirstMp4(t) IN
  IF i = 0 THEN t ELSE SubSeq(t, 1, i - 1) \o by \o SubSeq(t, i + 2, Len(t))

\* name.endsWith('.mp4')
EndsWithMp4(name) ==
  Len(name) >= 2 /\ name[Len(name) - 1] = Dot /\ name[Len(name)] = "mp4"

\* The file system: the set of its files, each a path with its content.
MediaBytes == [kind |-> "media", owner |-> <<>>, caption |-> "", keywords |-> <<>>]

\* JSON.stringify of the metadata of the item
MetadataOf(item) ==
  [kind |-> "json", owner |-> item.owner, caption |-> item.caption,
   keywords |-> item.keywords]

\* fs.writeFile: the file created, or its content replaced
writeFile(files, path, content) ==
  {f \in files : f.path # path} \cup {[path |-> path, content |-> content]}

Exists(files, path) == \E f \in files : f.path = path

ContentOf(files, path) == (CHOOSE f \in files : f.path = path).content

\* fs.readdir: the names of the files directly in the directory
readdir(files, dir) ==
  {SubSeq(f.path, Len(dir) + 2, Len(f.path)) :
     f \in {g \in files : /\ Len(g.path) > Len(dir) + 1
                          /\ SubSeq(g.path, 1, Len(dir) + 1) = dir \o <<Slash>>
                          /\ \A i \in (Len(dir) + 2)..Len(g.path) : g.path[i] # Slash}}

\* the metadata scanLibrary reads for a file: {} when the sidecar is missing
\* or is not JSON
ReadMetadata(files, path) ==
  IF Exists(files, path) /\ ContentOf(files, path).kind = "json"
  THEN ContentOf(files, path)
  ELSE [kind |-> "json", owner |-> <<>>, caption |-> "", keywords |-> <<>>]

LibraryItemOf(files, dir, name) ==
  LET filePath == join(dir, name)
      metadata == ReadMetadata(files, ReplaceMp4(filePath, <<Dot, "json">>))
  IN [id |-> ReplaceMp4(name, <<>>), filename |-> name, path |-> filePath,
      owner |-> IF metadata.owner # <<>> THEN metadata.owner ELSE <<"unknown">>,
      caption |-> metadata.caption, keywords |-> metadata.keywords]

scanLibraryLists(files, dir) ==
  {LibraryItemOf(files, dir, name) : name \in {n \in readdir(files, dir) : EndsWithMp4(n)}}

\* the file names a file link can carry
FileNames ==
  {NoName, Name(<<>>), Name(<<Blank>>),
   Name(<<"clip", Dot, "mp4">>), Name(<<Blank, "clip", Dot, "mp4", Blank>>),
   Name(<<"clip">>), Name(<<"clip", Dot, "json">>), Name(<<"clip", Dot, "jpg">>),
   Name(<<"clip", Dot, "MP4">>), Name(<<"clip", Dot, "mp4", Dot, "mp4">>)}

FileUrls ==
  {[parsed |-> FALSE, pathname |-> <<>>]}
    \cup {[parsed |-> TRUE, pathname |-> <<Slash, "dl", Slash, "abc">> \o e] :
            e \in {<<>>, <<Dot, "mp4">>, <<Dot, "jpg">>, <<Dot, "json">>, <<Dot, "torrent">>}}

FileLinks == {[filename |-> n, url |-> u] : n \in FileNames, u \in FileUrls}

DownloadDirs == {<<Slash, "videos">>, <<Slash, "my", Dot, "videos">>}

\* the items a poll tick hands to downloadFile (owner is never empty: addToQueue)
FileItems ==
  {[id |-> "q1", owner |-> <<"alice">>, caption |-> "sunset", keywords |-> <<"sea">>,
    status |-> "downloading", localPath |-> <<>>],
   [id |-> "q1", owner |-> <<"al", Dot, "ice">>, caption |-> "", keywords |-> <<>>,
    status |-> "downloading", localPath |-> <<>>],
   [id |-> "q1", owner |-> <<"unknown">>, caption |-> "", keywords |-> <<>>,
    status |-> "downloading", localPath |-> <<>>]}

InitFiles ==
  /\ QueueStart(Limits(SoloItems, SoloTimers, SoloTicks, SoloCreates, SoloRetry, FALSE, FALSE))
  /\ call \in {[pc |-> "ready", op |-> "downloadFile", item |-> i, file |-> f, dir |-> d,
                files |-> {}, filePath |-> <<>>, metadataPath |-> <<>>, library |-> {}] :
                 i \in FileItems, f \in FileLinks, d \in DownloadDirs}

\* downloadFile up to the media bytes written (responseOk: fetch answered 2xx);
\* a failure is thrown to the tick, whose catch fails the item
downloadFileWritesMedia(responseOk) ==
  /\ CallOnly
  /\ call.op = "downloadFile"
  /\ call.pc = "ready"
  /\ LET filePath == join(call.dir, resolveFilename(call.item, call.file)) IN
     IF responseOk
     THEN call' = [call EXCEPT !.pc = "media", !.filePath = filePath,
                               !.files = writeFile(call.files, filePath, MediaBytes)]
     ELSE call' = [call EXCEPT !.pc = "failed", !.filePath = filePath,
                               !.item.status = "failed"]

\* the sidecar written, item.localPath set, and the tick marks the item completed
downloadFileWritesSidecar ==
  /\ CallOnly
  /\ call.op = "downloadFile"
  /\ call.pc = "media"
  /\ LET metadataPath == metadataPathOf(call.filePath) IN
     call' = [call EXCEPT !.pc = "completed", !.metadataPath = metadataPath,
                          !.files = writeFile(call.files, metadataPath, MetadataOf(call.item)),
                          !.item.localPath = call.filePath,
                          !.item.status = "completed"]

scanLibrary ==
  /\ CallOnly
  /\ call.op = "downloadFile"
  /\ call.pc = "completed"
  /\ call' = [call EXCEPT !.pc = "scanned",
                          !.library = scanLibraryLists(call.files, call.dir)]

NextFiles ==
  \/ \E responseOk \in BOOLEAN : downloadFileWritesMedia(responseOk)
  \/ downloadFileWritesSidecar
  \/ scanLibrary

SpecFiles == InitFiles /\ [][NextFiles]_vars

TypeOK ==
  /\ Len(queue) <= lim.items
  /\ \A k \in 1..Len(queue) : queue[k].status \in Statuses /\ queue[k].id = k
  /\ store = queue

(* ------------------------------------------------------------- claims *)
Items == 1..Len(queue)

Busy(k) == queue[k].status \in {"active", "downloading"}

\* C1: in every reachable state at most one item has status active or downloading.
ConcurrencyCeilingOfOne == Cardinality({k \in Items : Busy(k)}) <= 1

\* A poll tick of timer s resumes from one of its awaits.
PollTickResumes(s) ==
  \/ \E r \in StatusResults : getStatusReturns(s, r)
  \/ \E r \in LinksResults, dir \in BOOLEAN : getFileLinksReturns(s, r, dir)
  \/ \E ok \in BOOLEAN : downloadFileReturns(s, ok)

PausedOrCancelled(k) ==
  \/ queue[k].status = "paused"
  \/ queue[k].status = "failed" /\ queue[k].error = CancelMessage

\* C2: when a status, file-link or byte-download call of a poll tick finishes
\* after its item was paused or cancelled, the tick changes nothing on the item.
StalePollResultsDiscarded ==
  [][\A s \in Slots :
       (timers[s].item # 0 /\ PausedOrCancelled(timers[s].item) /\ PollTickResumes(s))
         => queue'[timers[s].item] = queue[timers[s].item]]_vars

\* C3: once an item is completed, no step changes its status.
CompletedIsTerminal ==
  [][\A k \in Items : queue[k].status = "completed" => queue'[k].status = "completed"]_vars

\* C4: the status of a failed item changes only in a retryItem call that returns true.
FailedLeavesOnlyByRetry ==
  [][\A k \in Items :
       (queue[k].status = "failed" /\ queue'[k].status # "failed")
         => ret' = Call("retryItem", queue[k].id, TRUE)]_vars

\* C5: while an item stays downloading, no step other than the one that sets it
\* to downloading (addUrl returning) lowers its progress, whatever the polls observe.
ProgressNeverRegresses ==
  [][\A k \in Items :
       (queue[k].status = "downloading" /\ queue'[k].status = "downloading"
          /\ creates'[k] = creates[k])
         => queue'[k].progress >= queue[k].progress]_vars

\* A poll has raised the progress of a downloading item and its next tick is awaiting.
ProgressNeverRegressesWitness ==
  \E s \in Slots :
    /\ timers[s].item # 0 /\ timers[s].nStatus > 0
    /\ queue[timers[s].item].status = "downloading"
    /\ queue[timers[s].item].progress = 40130

\* C6: progress stays within [0,100]; it is 0 after add, after retry and when the
\* item enters downloading, and 100 when the item becomes completed.
ProgressWithinRange ==
  /\ [](\A k \in Items : queue[k].progress >= 0 /\ queue[k].progress <= Pct(100))
  /\ [][/\ \A k \in (Len(queue) + 1)..Len(queue') : queue'[k].progress = 0
        /\ \A k \in Items :
             /\ ret' = Call("retryItem", queue[k].id, TRUE) => queue'[k].progress = 0
             /\ (queue[k].status # "downloading" /\ queue'[k].status = "downloading")
                  => queue'[k].progress = 0
             /\ (queue[k].status # "completed" /\ queue'[k].status = "completed")
                  => queue'[k].progress = Pct(100)]_vars

\* A poll that observed a progress above 100 has been stored.
ProgressWithinRangeWitness ==
  \E k \in Items : queue[k].status = "downloading" /\ queue[k].progress = Pct(100)

\* The timer the registry records for the item is cleared and its entry deleted.
PollerRemoved(k) ==
  /\ activeDownloads'[queue[k].id] = 0
  /\ activeDownloads[queue[k].id] # 0 => ~timers'[activeDownloads[queue[k].id]].live

\* Every other registry entry and every other timer is as it was.
OtherPollersKept(k) ==
  /\ \A i \in ItemIds : i # queue[k].id => activeDownloads'[i] = activeDownloads[i]
  /\ \A s \in Slots : s # activeDownloads[queue[k].id] => timers'[s] = timers[s]

\* No request went out: nothing more is in flight than before.
NoRequestIssued ==
  /\ creates' = creates
  /\ \A s \in Slots : InFlight(timers'[s]) <= InFlight(timers[s])

NothingChanged == UNCHANGED <<queue, activeDownloads, store, timers, creates>>

\* C7: pauseItem returns true exactly for an existing item that is pending, active
\* or downloading; it then sets status paused and removes the item's poller (the
\* timer registered for it in activeDownloads, and the entry) and changes nothing
\* else; otherwise it returns false and changes nothing.
PauseItemContract ==
  [][\A id \in CallIds, v \in BOOLEAN :
       ret' = Call("pauseItem", id, v) =>
         LET k == Find(id) IN
         /\ v = (k # 0 /\ queue[k].status \in {"pending", "active", "downloading"})
         /\ v => /\ queue' = [queue EXCEPT ![k].status = "paused"]
                 /\ PollerRemoved(k) /\ OtherPollersKept(k) /\ NoRequestIssued
         /\ ~v => NothingChanged]_vars

\* pauseItem has returned true on a downloading item while another item exists.
PauseItemWitness ==
  /\ Len(queue) = 2
  /\ \E id \in CallIds :
       /\ ret = Call("pauseItem", id, TRUE)
       /\ queue[Find(id)].status = "paused" /\ queue[Find(id)].jobId # None

\* C8: retryItem on a failed item sets status pending, clears jobId, jobHash and
\* error, resets progress to 0, adds 1 to retryCount and returns true; otherwise
\* it returns false and changes nothing.
RetryItemContract ==
  [][\A id \in CallIds, v \in BOOLEAN :
       ret' = Call("retryItem", id, v) =>
         LET k == Find(id) IN
         /\ v = (k # 0 /\ queue[k].status = "failed")
         /\ v => /\ queue' = [queue EXCEPT ![k].status = "pending",
                                           ![k].jobId = None, ![k].jobHash = None,
                                           ![k].error = None, ![k].progress = 0,
                                           ![k].retryCount = queue[k].retryCount + 1]
                 /\ UNCHANGED <<activeDownloads, timers, creates>>
         /\ ~v => NothingChanged]_vars

\* retryItem has returned true on an item that had a job and an error.
RetryItemWitness ==
  /\ Len(queue) = 2
  /\ \E id \in CallIds :
       /\ ret = Call("retryItem", id, TRUE)
       /\ queue[Find(id)].status = "pending" /\ queue[Find(id)].retryCount = 1
       /\ queue[Find(id)].localPath # None

\* C9: cancelItem on an existing item, whatever its status, sets status failed
\* with the message 'Cancelled by user', removes the item's poller (the timer
\* registered for it in activeDownloads, and the entry) and returns true; for an
\* unknown id it returns false and changes nothing. It issues no request.
CancelItemContract ==
  [][\A id \in CallIds, v \in BOOLEAN :
       ret' = Call("cancelItem", id, v) =>
         LET k == Find(id) IN
         /\ v = (k # 0)
         /\ v => /\ queue' = [queue EXCEPT ![k].status = "failed",
                                           ![k].error = CancelMessage]
                 /\ PollerRemoved(k) /\ OtherPollersKept(k) /\ NoRequestIssued
         /\ ~v => NothingChanged]_vars

\* cancelItem has returned true on an item that was downloading with a tick awaiting.
CancelItemWitness ==
  /\ Len(queue) = 2
  /\ \E id \in CallIds :
       /\ ret = Call("cancelItem", id, TRUE)
       /\ queue[Find(id)].status = "failed" /\ queue[Find(id)].error = CancelMessage
       /\ \E s \in Slots : timers[s].item = Find(id) /\ ~timers[s].live

\* C10: resumeItem returns true exactly for an existing paused item; it then sets
\* status pending and clears error, leaving every other field; otherwise it
\* returns false and changes nothing.
ResumeItemContract ==
  [][\A id \in CallIds, v \in BOOLEAN :
       ret' = Call("resumeItem", id, v) =>
         LET k == Find(id) IN
         /\ v = (k # 0 /\ queue[k].status = "paused")
         /\ v => /\ queue' = [queue EXCEPT ![k].status = "pending", ![k].error = None]
                 /\ UNCHANGED <<activeDownloads, timers, creates>>
         /\ ~v => NothingChanged]_vars

\* resumeItem has returned true on an item that holds a job and progress.
ResumeItemWitness ==
  /\ Len(queue) = 2
  /\ \E id \in CallIds :
       /\ ret = Call("resumeItem", id, TRUE)
       /\ queue[Find(id)].status = "pending"
       /\ queue[Find(id)].jobId # None /\ queue[Find(id)].progress > 0

\* C11: addToQueue with n partial items appends exactly n items at the end, in
\* input order, each pending with progress 0, retryCount 0 and no jobId, jobHash
\* or error, taking url, owner, caption and keywords from the input where given
\* and the defaults 'unknown', '' and [] where not; the items already in the list
\* keep their positions and every field.
AddToQueueAppends ==
  [][\A items \in [1..(Len(queue') - Len(queue)) -> lim.inputs] :
     \A stamps \in [1..Len(items) -> lim.stamps] :
       addToQueue(items, stamps) =>
         /\ Len(queue') = Len(queue) + Len(items)
         /\ \A k \in 1..Len(queue) : queue'[k] = queue[k]
         /\ \A j \in 1..Len(items) :
              LET new == queue'[Len(queue) + j]
                  in == items[j]
              IN /\ new.url = in.url
                 /\ new.status = "pending" /\ new.progress = 0 /\ new.retryCount = 0
                 /\ new.jobId = None /\ new.jobHash = None /\ new.error = None
                 /\ new.owner = (IF in.owner.given /\ in.owner.v # ""
                                 THEN in.owner.v ELSE "unknown")
                 /\ new.caption = (IF in.caption.given THEN in.caption.v ELSE "")
                 /\ new.keywords = (IF in.keywords.given THEN in.keywords.v ELSE <<>>)]_vars

\* The second item was added from the url alone while the first, made from a
\* partial item that gave every field, was being downloaded.
AddToQueueWitness ==
  /\ Len(queue) = 2
  /\ queue[1].owner = "alice" /\ queue[1].keywords = <<"sea", "sky">>
  /\ queue[1].status = "downloading" /\ queue[1].addedAt = FirstStamp
  /\ queue[2].url = "https://x/y" /\ queue[2].owner = "unknown"
  /\ queue[2].status = "pending" /\ queue[2].addedAt = LaterStamp

\* C12: no step of the engine, no user operation and no restart deletes or
\* reorders items: the list never gets shorter, the item at each position keeps
\* its id, url and addedAt, and only addToQueue makes the list longer.
ItemsNeverDeletedOrReordered ==
  [][/\ Len(queue') >= Len(queue)
     /\ \A k \in Items :
          /\ queue'[k].id = queue[k].id
          /\ queue'[k].url = queue[k].url
          /\ queue'[k].addedAt = queue[k].addedAt
     /\ Len(queue') > Len(queue) =>
          \E items \in [1..(Len(queue') - Len(queue)) -> lim.inputs] :
            \E stamps \in [1..Len(items) -> lim.stamps] : addToQueue(items, stamps)]_vars

\* A completed item was cancelled, as clearCompleted does, and is still first in
\* the list, before a different item that was retried.
ItemsNeverDeletedWitness ==
  /\ Len(queue) = 2
  /\ queue[1].status = "failed" /\ queue[1].error = CancelMessage
  /\ queue[1].localPath # None
  /\ queue[2].url # queue[1].url /\ queue[2].retryCount = 1

\* C13: a poll tick that observes remote status completed and then gets
\* TORBOX_NO_LINKS changes neither the status nor the error of any item, leaves
\* the registry and the timer as they were and ends, so that a downloading item
\* stays downloading with its poller registered and live and the next tick can
\* fire; this holds however many such ticks have gone before.
NoLinksYetKeepsPolling ==
  [][\A s \in Slots :
       /\ \A r \in StatusResults :
            (r.ok /\ r.status = "completed" /\ getStatusReturns(s, r)) =>
              /\ \A k \in Items : /\ queue'[k].status = queue[k].status
                                  /\ queue'[k].error = queue[k].error
              /\ activeDownloads' = activeDownloads
              /\ timers'[s].live = timers[s].live
              /\ timers'[s].nLinks = timers[s].nLinks + 1
       /\ \A dir \in BOOLEAN :
            getFileLinksReturns(s, "no_links", dir) =>
              /\ queue' = queue
              /\ activeDownloads' = activeDownloads
              /\ timers[s].live =>
                   /\ timers'[s].live
                   /\ timers'[s].item = timers[s].item
                   /\ InFlight(timers'[s]) < lim.ticks]_vars

\* Two ticks in a row ended at NO_LINKS and the third is asking for the links:
\* the item is still downloading, without an error, its poller registered.
NoLinksYetWitness ==
  \E s \in Slots :
    /\ timers[s].live /\ timers[s].noLinks = 2 /\ timers[s].nLinks > 0
    /\ queue[timers[s].item].status = "downloading"
    /\ queue[timers[s].item].error = None
    /\ activeDownloads[queue[timers[s].item].id] = s

\* C14: after every step that changes a field of an item (add, pause, resume,
\* cancel, retry, the sweep's claim, job created, hash or progress update of a
\* poll tick, completion, failure) the list stored under 'downloadQueue' is the
\* list in memory.
StoreFollowsEveryMutation ==
  [][queue' # queue => store' = queue']_vars

\* The store holds an item that was retried, rotated its hash and was completed.
StoreFollowsWitness ==
  \E k \in Items :
    /\ Len(store) = Len(queue)
    /\ store[k].status = "completed" /\ store[k].localPath = "file"
    /\ store[k].jobHash = "h2" /\ store[k].retryCount = 1
    /\ store[k].progress = Pct(100)

\* An item that is active or downloading while nothing in the engine works on
\* it: no create-job call awaiting, no registry entry, no timer and no tick.
Orphaned(k) ==
  /\ Busy(k)
  /\ creates[k] = 0
  /\ activeDownloads[queue[k].id] = 0
  /\ \A s \in Slots : timers[s].item # k

\* C15: a restart makes the engine's list the stored list, field for field, and
\* leaves every active or downloading item of it without poller, tick or
\* create-job call; such an item stays exactly as it is, never claimed by the
\* sweep and never polled, in every step other than a pauseItem or cancelItem
\* call for it.
RestartLeavesBusyItemsAlone ==
  [][/\ Restart =>
          /\ queue' = store
          /\ \A k \in 1..Len(queue') : Busy(k)' => Orphaned(k)'
     /\ \A k \in Items :
          Orphaned(k) =>
            \/ queue'[k] = queue[k] /\ Orphaned(k)'
            \/ pauseItem(queue[k].id)
            \/ cancelItem(queue[k].id)]_vars

\* The first item was loaded as downloading, with the job and the progress it
\* had, and nothing polls it; the sweep passed it over and the second item went
\* through to completed.
RestartWitness ==
  /\ Len(queue) = 2
  /\ Orphaned(1) /\ queue[1].status = "downloading"
  /\ queue[1].jobId # None /\ queue[1].progress > 0
  /\ queue[2].status = "completed"

(* ------------------------------------------------- claims on makeRequest *)
\* the failures the retry rule names: a failed transport, or a response that
\* is not ok with status 429, 5xx, 408, 425, 500, 502, 503 or 504
NamedRetryable(response) ==
  \/ response.threw
  \/ /\ ~ResponseOk(response.status)
     /\ \/ response.status = 429
        \/ response.status >= 500
        \/ response.status \in {408, 425, 429, 500, 502, 503, 504}

\* C16: an attempt is followed by a wait and another attempt only when its
\* failure is a transport failure, a rate limit, a server error or one of the
\* statuses 408, 425, 429, 500, 502, 503, 504, and retries remain; an attempt
\* that fails in any other way ends the request with its error, whatever the
\* retry budget, and no further attempt is made.
RetriesOnlyRetryableFailures ==
  [][\A r \in Responses :
       fetchReturns(r) =>
         /\ http'.pc = "waiting" =>
              NamedRetryable(r) /\ http.attempt < http.maxRetries
         /\ (Turn(r, http.attempt, http.maxRetries).next # "return"
               /\ ~NamedRetryable(r)) =>
              /\ http'.pc = "done" /\ ~http'.ok
              /\ http'.error = Turn(r, http.attempt, http.maxRetries).error
              /\ http'.fetches = http.fetches]_vars

\* every attempt of the request that has ended was answered HTTP 503
EndedOn503Only == http.pc = "done" /\ http.all503 /\ http.fetches > 0

\* the request made maxRetries + 1 attempts, ended in a ServerError, and waited
\* min(500 * 2^k, 10000) ms before the retry that followed attempt k
AttemptsAndWaits503 ==
  /\ http.fetches = http.maxRetries + 1
  /\ ~http.ok
  /\ http.error.code = "TORBOX_SERVER_ERROR"
  /\ Len(http.waits) = http.maxRetries
  /\ \A k \in 0..(Len(http.waits) - 1) :
       http.waits[k + 1] = Min(500 * Pow2(k), 10000)

CodeOfStatus(status) ==
  CASE status = 401 -> "TORBOX_UNAUTHORIZED"
    [] status = 403 -> "TORBOX_FORBIDDEN"
    [] status = 404 -> "TORBOX_NOT_FOUND"
    [] status = 429 -> "TORBOX_RATE_LIMITED"
    [] status >= 500 -> "TORBOX_SERVER_ERROR"
    [] status \in (400..499) \ {401, 403, 404, 429} -> "TORBOX_BAD_REQUEST"
    [] OTHER -> "TORBOX_UNKNOWN_ERROR"

\* C18: the error of an attempt answered with a status that is not 2xx carries
\* that status and the code the table gives for it, whatever the body of the
\* response and whatever the attempt: 401 Unauthorized, 403 Forbidden, 404
\* NotFound, 429 RateLimited, 500 and above ServerError, the other statuses of
\* 400..499 BadRequest, and every remaining status Unknown.
StatusAloneGivesCode ==
  [][\A r \in Responses :
       (~r.threw /\ ~(r.status \in 200..299) /\ fetchReturns(r)) =>
         /\ http'.pc \in {"waiting", "done"}
         /\ ~http'.ok
         /\ http'.error.status = r.status
         /\ http'.error.code = CodeOfStatus(r.status)]_vars

\* A request ended with the status 304 and the code Unknown, and another
\* status of the table is behind it: 429 was answered first and retried.
StatusAloneWitness ==
  /\ http.pc = "done"
  /\ http.error.status = 304
  /\ http.error.code = "TORBOX_UNKNOWN_ERROR"
  /\ http.fetches = 2

\* C19: a request made with an API key that is empty or only white space ends
\* at once with AuthMissing: no HTTP attempt, no retry and no wait.
BlankKeyFailsWithoutAttempt ==
  [][\A key \in {"", "   "}, option \in RetryOptions :
       makeRequest(key, option) =>
         /\ http'.pc = "done"
         /\ ~http'.ok
         /\ http'.error.code = "TORBOX_AUTH_MISSING"
         /\ http'.fetches = 0
         /\ http'.attempt = 0
         /\ http'.waits = <<>>]_vars

\* A request with a key of white space only has ended with AuthMissing and
\* without a fetch.
BlankKeyWitness ==
  /\ http.pc = "done"
  /\ http.apiKey = "   "
  /\ http.error.code = "TORBOX_AUTH_MISSING"
  /\ http.fetches = 0

\* the text of a JSON value: a string, the first string of an array, or the
\* message, else the detail, of an object
TextOf(value) ==
  CASE value.t = "string" -> value.s
    [] value.t = "array" -> FirstString(value.a)
    [] value.t = "object" -> IF value.m # None THEN value.m ELSE value.d
    [] OTHER -> None

\* the message of a body as received: from detail, else error, else message
DetailElseErrorElseMessage(body) ==
  IF body.detail.t \notin {"absent", "null"} THEN TextOf(body.detail)
  ELSE IF body.error.t \notin {"absent", "null"} THEN TextOf(body.error)
  ELSE TextOf(body.message)

\* C20: a response with HTTP 200 whose envelope has success false ends the
\* request with BadRequest in that very attempt, whatever the retry budget, and
\* the message of the error is the text of the envelope's detail, else of its
\* error, else of its message field (the default message when it has none).
UnsuccessfulEnvelopeIsBadRequest ==
  [][\A body \in UnsuccessfulBodies :
       fetchReturns([threw |-> FALSE, status |-> 200, body |-> body]) =>
         /\ http'.pc = "done"
         /\ ~http'.ok
         /\ http'.fetches = http.fetches
         /\ http'.error.code = "TORBOX_BAD_REQUEST"
         /\ http'.error.message =
              OrElse(DetailElseErrorElseMessage(body), UnsuccessfulMessage)]_vars

(* ------------------------------------------- claims on the normalizer *)
\* the vocabulary groups of the seven canonical statuses
Vocabulary ==
  [completed |-> {"completed", "complete", "finished", "done", "success"},
   failed |-> {"failed", "error", "stopped"},
   cancelled |-> {"cancelled", "canceled", "aborted"},
   downloading |-> {"downloading", "download", "running", "active"},
   processing |-> {"processing", "preparing", "transcoding"},
   queued |-> {"queued", "queue"},
   pending |-> {"pending", "waiting"}]

\* the groups a value belongs to, letter case set aside
GroupsOf(value) == {g \in DOMAIN Vocabulary : value.t = "string" /\ value.low \in Vocabulary[g]}

\* C21: the groups are pairwise disjoint, and the status of a canonical record
\* is one of the seven canonical statuses: the one whose group holds the status
\* value of the raw record, whatever its letter case, and processing when no
\* group holds it, when it is the empty string, and when the record has none.
StatusMappingTotal ==
  /\ \A a, b \in DOMAIN Vocabulary : a # b => Vocabulary[a] \cap Vocabulary[b] = {}
  /\ call.pc = "done" =>
       LET value == statusValue(call.job) IN
       /\ call.status \in DOMAIN Vocabulary
       /\ GroupsOf(value) # {} => GroupsOf(value) = {call.status}
       /\ GroupsOf(value) = {} => call.status = "processing"
       /\ (call.job.status = Plain("") \/ call.job = [status |-> NoWord, state |-> NoWord,
                                                      message |-> NoWord]) =>
            call.status = "processing"

\* "FINISHED" was mapped to completed.
StatusMappingWitness ==
  /\ call.pc = "done"
  /\ call.job.status = Word("finished", 1..8)
  /\ call.status = "completed"

\* the buckets that are present, one after the other: active, queued, completed,
\* downloads
BucketsInOrder(payload) ==
  (IF payload.active.t = "array" THEN payload.active.list ELSE <<>>)
    \o (IF payload.queued.t = "array" THEN payload.queued.list ELSE <<>>)
    \o (IF payload.completed.t = "array" THEN payload.completed.list ELSE <<>>)
    \o (IF payload.downloads.t = "array" THEN payload.downloads.list ELSE <<>>)

\* an object with at least one of the four bucket fields, and no jobs, data or
\* web_downloads field
BucketPayload(payload) ==
  /\ payload.t = "object"
  /\ payload.jobs = Missing /\ payload.data = Missing /\ payload.web_downloads = Missing
  /\ \E f \in {"active", "queued", "completed", "downloads"} : payload[f] # Missing

\* C22: for a payload with bucket fields, normalization returns exactly the
\* present buckets one after the other in the order active, queued, completed,
\* downloads, whatever the buckets hold, empty buckets included: as many
\* records as the buckets hold together, none dropped, duplicated or added.
BucketsConcatenated ==
  (call.pc = "done" /\ BucketPayload(call.payload)) =>
    /\ call.jobs = BucketsInOrder(call.payload)
    /\ Len(call.jobs) = Len(call.payload.active.list) + Len(call.payload.queued.list)
                          + Len(call.payload.completed.list)
                          + Len(call.payload.downloads.list)

\* the urls of a list of links
Urls(links) == [i \in 1..Len(links) |-> links[i].url]

\* a list without its repetitions: of equal elements the first stays
RECURSIVE FirstSeen(_)
FirstSeen(list) ==
  IF list = <<>> THEN <<>>
  ELSE LET front == FirstSeen(SubSeq(list, 1, Len(list) - 1))
           last == list[Len(list)]
       IN IF \E i \in 1..Len(front) : front[i] = last THEN front ELSE Append(front, last)

\* C23: the extracted links have pairwise different urls; when the containers
\* file_links, links, files, data.links, data.files yield links, the result is
\* those links in the order they were seen, each url once and by its first
\* link, and the top-level link and url are not used; a list the containers
\* yield without repetition comes back as it is, and extracting again from the
\* extracted links gives the same urls in the same order.
LinksDeduplicatedInOrder ==
  /\ call.pc \in {"extracted", "done"} =>
       /\ \A i, j \in 1..Len(call.links) : i # j => call.links[i].url # call.links[j].url
       /\ Gathered(call.job) # <<>> =>
            /\ Urls(call.links) = FirstSeen(Urls(Gathered(call.job)))
            /\ \A i \in 1..Len(call.links) :
                 /\ call.links[i].raw # WholeJob
                 /\ \E g \in 1..Len(Gathered(call.job)) :
                      /\ Gathered(call.job)[g] = call.links[i]
                      /\ \A h \in 1..(g - 1) : Gathered(call.job)[h].url # call.links[i].url
            /\ FirstSeen(Urls(Gathered(call.job))) = Urls(Gathered(call.job)) =>
                 call.links = Gathered(call.job)
       /\ (\E i \in 1..Len(call.links) : call.links[i].raw = WholeJob) =>
            Gathered(call.job) = <<>>
       /\ Gathered(call.job) = <<>> =>
            Urls(call.links) \in {<<>>, <<call.job.link.s>>, <<call.job.url.s>>}
  /\ call.pc = "done" => Urls(call.again) = Urls(call.links)

\* links gave a twice and then b, files gave b once more, and the top-level
\* link was set: the result is a, b, and extracting again gives a, b.
LinksDeduplicatedWitness ==
  /\ call.pc = "done"
  /\ Len(Gathered(call.job)) >= 4
  /\ call.job.link = Str("https://t")
  /\ Urls(call.links) = <<"https://a", "https://b">>
  /\ Urls(call.again) = <<"https://a", "https://b">>

(* --------------------------------------------- claims on the resolver *)
\* a record answers a reference: by its job id as a string, by its job id as
\* a number written out, or by its hash
Answers(job, reference) ==
  LET jobId == IF job.id # None THEN job.id ELSE job.hash
      wanted == Trimmed(reference.jobId)
      wantedHash == Trimmed(reference.jobHash)
  IN \/ wanted # "" /\ jobId = wanted
     \/ wanted # "" /\ job.id \in {"7", "007"} /\ wanted = "7"
     \/ wanted # "" /\ job.id = "8" /\ wanted = "8"
     \/ wantedHash # "" /\ job.hash = wantedHash

\* the first record of a listing that answers the reference (0: none does)
FirstAnswer(jobs, reference) ==
  IF \E i \in 1..Len(jobs) : Answers(jobs[i], reference)
  THEN CHOOSE i \in 1..Len(jobs) :
         Answers(jobs[i], reference) /\ \A j \in 1..(i - 1) : ~Answers(jobs[j], reference)
  ELSE 0

\* the orders in which resolveJob can go through its strategies
StrategyOrders ==
  {<<"lookup">>, <<"lookup", "listing">>, <<"lookup", "listing", "byId">>,
   <<"listing">>, <<"listing", "byId">>}

StrategiesInOrder ==
  /\ call.steps \in StrategyOrders
  /\ call.steps[1] = "lookup" <=> Trimmed(call.reference.jobHash) # ""
  /\ (\E i \in 1..Len(call.steps) : call.steps[i] = "byId") =>
       Trimmed(call.reference.jobId) # ""
  /\ call.pc \in {"lookup", "listing", "byId"} =>
       call.steps[Len(call.steps)] = call.pc /\ call.result = NoResult

LookupStep(answer) ==
  lookupReturns(answer) =>
    IF answer.kind = "job"
    THEN call'.pc = "done" /\ call'.result = Resolved(answer.job) /\ call'.steps = call.steps
    ELSE IF answer.code = "TORBOX_NOT_FOUND"
    THEN call'.pc = "listing" /\ call'.steps = Append(call.steps, "listing")
    ELSE call'.pc = "done" /\ call'.result = Thrown(answer.code)
           /\ call'.steps = call.steps

ListingStep(answer) ==
  (listingReturns(answer) /\ answer.kind = "jobs") =>
    LET first == FirstAnswer(answer.jobs, call.reference) IN
    IF first # 0
    THEN call'.pc = "done" /\ call'.result = Resolved(answer.jobs[first])
           /\ call'.steps = call.steps
    ELSE IF Trimmed(call.reference.jobId) # ""
    THEN call'.pc = "byId" /\ call'.steps = Append(call.steps, "byId")
    ELSE call'.pc = "done" /\ call'.result = NotFoundValue /\ call'.steps = call.steps

IdListingStep(answer) ==
  (idListingReturns(answer) /\ answer.kind = "jobs") =>
    LET first == FirstAnswer(answer.jobs, call.reference) IN
    /\ call'.pc = "done"
    /\ call'.steps = call.steps
    /\ call'.result = IF first # 0 THEN Resolved(answer.jobs[first]) ELSE NotFoundValue

\* C24: resolveJob goes through its strategies in the order direct lookup by
\* hash (only with a hash), full listing, listing filtered by id (only with a
\* job id, and only after the full listing had no match), and stops at the
\* first that yields a job. A NotFound of the lookup leads on to the listing,
\* any other error of the lookup is thrown; a listing is matched on job id as
\* string, job id as number written out, or hash, first match first; when the
\* last strategy has no match the result is null, not an error.
ResolutionInOrder ==
  /\ []StrategiesInOrder
  /\ [][/\ \A answer \in LookupAnswers : LookupStep(answer)
        /\ \A answer \in ListingAnswers : ListingStep(answer) /\ IdListingStep(answer)]_vars

\* The lookup by hash answered NotFound, the full listing had no match, and the
\* listing filtered by id held the job.
ResolutionWitness ==
  /\ call.pc = "done"
  /\ call.steps = <<"lookup", "listing", "byId">>
  /\ call.lookup = "notFound"
  /\ call.result.kind = "job"

\* the listing holds the job the reference was made for under a hash that is
\* not the cached one, and no record of it has the cached hash
RotatedInListing(jobs, reference, created) ==
  /\ \A i \in 1..Len(jobs) : jobs[i].hash # reference.jobHash
  /\ \E i \in 1..Len(jobs) :
       /\ jobs[i].mine
       /\ jobs[i].hash # None
       /\ created.id # None => jobs[i].id # None

\* the job of the listing the reference was made for
Mine(jobs) == jobs[CHOOSE i \in 1..Len(jobs) : jobs[i].mine]

\* C25: when the cached hash of a reference made by addUrl is not found any
\* more and the full listing holds the job under a rotated hash, resolveJob
\* returns that job, at every poll, whether the create response carried a
\* numeric id or a hash alone.
StaleHashDoesNotBlock ==
  [][\A answer \in ListingAnswers :
       (/\ listingReturns(answer)
        /\ answer.kind = "jobs"
        /\ call.created # NoJob
        /\ call.lookup = "notFound"
        /\ RotatedInListing(answer.jobs, call.reference, call.created)) =>
         call'.pc = "done" /\ call'.result = Resolved(Mine(answer.jobs))]_vars

(* ------------------------------------------- claims on the queue engine *)
\* the item was paused, or cancelled, after its create-job request was sent
SetAsideDuringCreate(k) ==
  /\ k \in 1..Len(queue)
  /\ creates[k] > 0
  /\ \/ queue[k].status = "paused"
     \/ queue[k].status = "failed" /\ queue[k].error = CancelMessage

\* C26: when the create-job request of an item that was paused or cancelled in
\* the meantime returns, with a job or with a failure, the item keeps its
\* status, job id, job hash, progress and error, and no poller is started.
StaleCreateResultsDiscarded ==
  [][\A k \in ItemIds : \A result \in CreateResults :
       (SetAsideDuringCreate(k) /\ addUrlReturns(k, result)) =>
         /\ queue'[k] = queue[k]
         /\ activeDownloads' = activeDownloads
         /\ timers' = timers]_vars

\* C27: the poll ticks of one item never overlap: at no time more than one
\* tick of a timer is awaiting its status, file-link or byte-download call
\* (and so the file of a job is never downloaded twice).
SingleFlightPolling ==
  \A s \in Slots : InFlight(timers[s]) <= 1

\* the first item in list order that is pending and has no registered poller
\* (0: there is none)
FirstToClaim ==
  IF \E k \in 1..Len(queue) : queue[k].status = "pending" /\ activeDownloads[queue[k].id] = 0
  THEN CHOOSE k \in 1..Len(queue) :
         /\ queue[k].status = "pending" /\ activeDownloads[queue[k].id] = 0
         /\ \A j \in 1..(k - 1) :
              ~(queue[j].status = "pending" /\ activeDownloads[queue[j].id] = 0)
  ELSE 0

\* C28: a sweep tick takes at most one item out of pending, and it is the
\* first item of the list that is pending and has no registered poller (it
\* becomes active, or failed in the same tick when no API key is configured);
\* every other item is left as it is, and a tick that finds no such item
\* changes nothing.
SweepClaimsFirstPending ==
  [][\A key \in BOOLEAN :
       processQueue(key) =>
         /\ Len(queue') = Len(queue)
         /\ \A k \in 1..Len(queue) : k # FirstToClaim => queue'[k] = queue[k]
         /\ FirstToClaim = 0 =>
              UNCHANGED <<queue, store, activeDownloads, timers, creates>>
         /\ FirstToClaim # 0 =>
              /\ queue'[FirstToClaim].status = IF key THEN "active" ELSE "failed"
              /\ queue'[FirstToClaim] =
                   [queue[FirstToClaim] EXCEPT
                      !.status = queue'[FirstToClaim].status,
                      !.error = queue'[FirstToClaim].error]
              /\ timers' = timers]_vars

\* A sweep tick has claimed the second item of the list, the first being in
\* another status.
SweepClaimsWitness ==
  /\ Len(queue) = 2
  /\ queue[1].status \in {"paused", "downloading", "failed", "completed"}
  /\ queue[2].status = "active"
  /\ creates[2] > 0

\* a completed item has all of its download
CompletedItemsWhole ==
  \A k \in 1..Len(queue) :
    queue[k].status = "completed" =>
      /\ queue[k].progress = Pct(100)
      /\ queue[k].completedAt # None
      /\ queue[k].localPath # None

\* the step is the end of a poll tick of item k whose file was written
Materialized(k) ==
  \E s \in Slots :
    /\ timers[s].item = k
    /\ timers[s].nDownload > 0
    /\ downloadFileReturns(s, TRUE)

\* a tick gets to the byte download only from a non-empty link list, and to
\* the link request only from a remote status completed
TickStages ==
  \A s \in Slots :
    /\ timers'[s].nDownload > timers[s].nDownload =>
         /\ timers[s].nLinks > 0
         /\ getFileLinksReturns(s, "links", TRUE)
    /\ timers'[s].nLinks > timers[s].nLinks =>
         /\ timers[s].nStatus > 0
         /\ \E result \in StatusResults :
              result.ok /\ result.status = "completed" /\ getStatusReturns(s, result)

\* C29: an item becomes completed only at the end of a poll tick that saw the
\* remote status completed, got a non-empty link list and wrote the file of the
\* first link; the item then has progress 100, completedAt and localPath set
\* and no registered poller. Every completed item of a queue that started empty
\* has progress 100, completedAt and localPath.
CompletedOnlyByMaterialization ==
  /\ []CompletedItemsWhole
  /\ [][/\ TickStages
        /\ \A k \in 1..Len(queue) :
             (queue[k].status # "completed" /\ queue'[k].status = "completed") =>
               /\ Materialized(k)
               /\ queue'[k].progress = Pct(100)
               /\ queue'[k].completedAt # None
               /\ queue'[k].localPath # None
               /\ activeDownloads'[queue[k].id] = 0]_vars

\* An item that was retried after a cancellation has completed.
CompletedWitness ==
  \E k \in 1..Len(queue) :
    /\ queue[k].status = "completed"
    /\ queue[k].retryCount = 1
    /\ activeDownloads[queue[k].id] = 0

\* item k ends the step failed, with an error message and without poller
EndsFailed(k) ==
  /\ queue'[k].status = "failed"
  /\ queue'[k].error # None
  /\ queue'[k].error # ""
  /\ activeDownloads'[queue[k].id] = 0

\* the step is a poll tick of timer s coming to a failure
TickFails(s) ==
  \/ \E result \in StatusResults :
       /\ ~result.ok \/ result.status \in {"failed", "cancelled"}
       /\ getStatusReturns(s, result)
  \/ \E dir \in BOOLEAN : getFileLinksReturns(s, "error", dir)
  \/ getFileLinksReturns(s, "links", FALSE)
  \/ downloadFileReturns(s, FALSE)

\* C30: a poll tick that sees the remote status failed or cancelled, or one
\* of whose steps fails, leaves the item failed with a non-empty error message
\* and no registered poller; so does a failed create-job request, and a sweep
\* tick that claims an item while no API key is configured.
FailuresEndFailedWithMessage ==
  [][/\ \A s \in Slots : TickFails(s) => EndsFailed(timers[s].item)
     /\ \A k \in ItemIds : addUrlReturns(k, CreateFailure) => EndsFailed(k)
     /\ (FirstToClaim # 0 /\ processQueue(FALSE)) => EndsFailed(FirstToClaim)]_vars

\* the results the requests of the specification can come back with
CreateOutcomes == IF lim.rich THEN CreateResults ELSE CreateResultsLean
StatusOutcomes == IF lim.rich THEN StatusResults ELSE StatusResultsLean
LinksOutcomes == IF lim.rich THEN LinksResults ELSE {"links", "no_links"}
YesOrNo == IF lim.rich THEN BOOLEAN ELSE {TRUE}

\* the step is a poll tick, a create-job completion (each with its failure
\* handling) or a public call for the item at index k
StepOfItem(k) ==
  \/ \E s \in Slots :
       /\ timers[s].item = k
       /\ \/ pollFires(s)
          \/ \E result \in StatusOutcomes : getStatusReturns(s, result)
          \/ \E result \in LinksOutcomes, dir \in YesOrNo : getFileLinksReturns(s, result, dir)
          \/ \E ok \in YesOrNo : downloadFileReturns(s, ok)
  \/ \E result \in CreateOutcomes : addUrlReturns(k, result)
  \/ pauseItem(queue[k].id)
  \/ resumeItem(queue[k].id)
  \/ cancelItem(queue[k].id)
  \/ retryItem(queue[k].id)

\* every item but the one at index k, its registry entry, its timers and its
\* create requests are as they were
SiblingsUntouched(k) ==
  /\ Len(queue') = Len(queue)
  /\ \A j \in 1..Len(queue) :
       j # k =>
         /\ queue'[j] = queue[j]
         /\ activeDownloads'[queue[j].id] = activeDownloads[queue[j].id]
         /\ creates'[j] = creates[j]
         /\ \A s \in Slots : timers[s].item = j => timers'[s] = timers[s]

\* C31: a poll tick, a create-job completion or the failure handling of an
\* item, and pauseItem, resumeItem, cancelItem and retryItem called with its
\* id, change no field of any other item and leave every other item's poller
\* and registry entry as they were.
SiblingIsolation ==
  [][\A k \in 1..Len(queue) : SiblingsUntouched(k) \/ ~StepOfItem(k)]_vars

\* One item has failed while the other is downloading with its poller live.
SiblingIsolationWitness ==
  /\ Len(queue) = 2
  /\ queue[1].status = "failed"
  /\ queue[1].error # CancelMessage
  /\ queue[2].status = "downloading"
  /\ activeDownloads[queue[2].id] # 0
  /\ timers[activeDownloads[queue[2].id]].live

\* a request of another item than the one at index k is outstanding
OtherCallOutstanding(k) ==
  \/ \E j \in 1..Len(queue) : j # k /\ creates[j] > 0
  \/ \E s \in Slots : timers[s].item # k /\ InFlight(timers[s]) > 0

\* a public call for the item at index k has its effect in the step it is made
TakesEffect(k) ==
  /\ (pauseItem(queue[k].id) /\ queue[k].status \in {"pending", "active", "downloading"}) =>
       queue'[k].status = "paused"
  /\ (resumeItem(queue[k].id) /\ queue[k].status = "paused") =>
       queue'[k].status = "pending"
  /\ cancelItem(queue[k].id) =>
       queue'[k].status = "failed" /\ queue'[k].error = CancelMessage
  /\ (retryItem(queue[k].id) /\ queue[k].status = "failed") =>
       queue'[k].status = "pending"

\* C32, as stated: with the sweep ticking on, every pending item leaves pending (it is
\* claimed, unless it is paused or cancelled first), also when requests made
\* for an earlier item never return; and while such a request is outstanding,
\* pauseItem, resumeItem, cancelItem and retryItem on another item have their
\* effect in the very step of the call.
SweepNeverBlocked ==
  /\ \A k \in 1..SweepItems :
       (k <= Len(queue) /\ queue[k].status = "pending")
         ~> (k <= Len(queue) /\ queue[k].status # "pending")
  /\ [][\A k \in 1..Len(queue) : OtherCallOutstanding(k) => TakesEffect(k)]_vars

\* from some moment on no item before the one at index k is pending
EarlierSettled(k) ==
  \A j \in 1..(k - 1) : j <= Len(queue) => queue[j].status # "pending"

\* C32, amended: with the sweep ticking on, every pending item leaves pending
\* (it is claimed, unless it is paused or cancelled first), also when requests
\* made for an earlier item never return, provided the items before it in the
\* list do not return to pending again and again for ever; and while such a
\* request is outstanding, pauseItem, resumeItem, cancelItem and retryItem on
\* another item have their effect in the very step of the call.
SweepBlockedOnlyByPending ==
  /\ \A k \in 1..SweepItems :
       <>[]EarlierSettled(k) =>
         ((k <= Len(queue) /\ queue[k].status = "pending")
            ~> (k <= Len(queue) /\ queue[k].status # "pending"))
  /\ [][\A k \in 1..Len(queue) : OtherCallOutstanding(k) => TakesEffect(k)]_vars

\* The second item was claimed while the create-job request of the first is
\* still outstanding.
SweepNeverBlockedWitness ==
  /\ Len(queue) = 2
  /\ creates[1] > 0
  /\ queue[1].status = "active"
  /\ queue[2].status = "active"
  /\ creates[2] > 0

\* retryItem(itemId) succeeds in this step
Retried(k) == retryItem(queue[k].id) /\ queue[k].status = "failed"

\* C33: once an item that is downloading has a job id, or a job hash, the
\* field keeps that value for as long as the item stays downloading, whatever
\* hashes the polls report; and a retryItem that succeeds leaves the item with
\* neither job id nor job hash.
IdentifiersSetOncePerSegment ==
  [][\A k \in 1..Len(queue) :
       /\ (queue[k].status = "downloading" /\ queue'[k].status = "downloading") =>
            /\ queue[k].jobId # None => queue'[k].jobId = queue[k].jobId
            /\ queue[k].jobHash # None => queue'[k].jobHash = queue[k].jobHash
       /\ Retried(k) => queue'[k].jobId = None /\ queue'[k].jobHash = None]_vars

(* ------------------------------------- further claims on the HTTP layer *)
\* a 2xx response whose body is no valid envelope, or whose data fails the
\* schema of the endpoint
InvalidBody(r) ==
  /\ ~r.threw
  /\ ResponseOk(r.status)
  /\ \/ ~EnvelopeValid(r.body)
     \/ Envelope(r.body).success # "false" /\ r.body.data = "invalid"

\* C34: a 2xx response with a body that is no valid envelope, or with data
\* that fails the endpoint's schema, ends the request at once with the error
\* InvalidResponse: it is not made a NetworkError and no attempt follows.
Invalid2xxReportedAtOnce ==
  [][\A r \in Responses :
       (InvalidBody(r) /\ fetchReturns(r)) =>
         /\ http'.pc = "done"
         /\ ~http'.ok
         /\ http'.error.code = "TORBOX_INVALID_RESPONSE"
         /\ http'.fetches = http.fetches]_vars

(* ------------------------------------ further claims on the normalizer *)
ContainerFields == {"jobs", "data", "active", "queued", "completed", "downloads", "web_downloads"}
BucketFields == {"active", "queued", "completed", "downloads"}

\* the payload has the shape of categorized buckets: at least one bucket, and
\* every bucket it has is an array of job records
BucketShape(payload) ==
  /\ \E f \in BucketFields : payload[f].t = "array"
  /\ \A f \in BucketFields : payload[f].t = "missing" \/ ValidJobs(payload[f])

\* the records of the first shape the payload matches, in the order bare
\* array, jobs, data, buckets, web_downloads, single job record
FirstShape(payload) ==
  IF payload.t = "array"
  THEN IF ValidJobs(Arr(payload.items)) THEN payload.items ELSE <<>>
  ELSE IF ValidJobs(payload.jobs) THEN payload.jobs.list
  ELSE IF ValidJobs(payload.data) THEN payload.data.list
  ELSE IF BucketShape(payload) THEN BucketsInOrder(payload)
  ELSE IF ValidJobs(payload.web_downloads) THEN payload.web_downloads.list
  ELSE IF payload.valid /\ \A f \in ContainerFields : payload[f].t = "missing"
  THEN <<AsRecord(payload)>>
  ELSE <<>>

\* C35: normalizeJobsPayload returns the records of the first shape the
\* payload matches, in the order bare array, {jobs}, {data}, categorized
\* buckets, {web_downloads}, single job record; a payload that is a container
\* is never returned as a job record itself, and a payload matching no shape
\* gives the empty list.
FirstShapeWins ==
  (call.pc = "done" /\ call.op = "normalizeJobsPayload") =>
    call.jobs = FirstShape(call.payload)

\* a number, or a string that parses as a number
IsNumeric(value) ==
  value.t = "number" \/ (value.t = "string" /\ value.s \in NumericStrings)

NumericValue(value) == IF value.t = "number" THEN value.v ELSE NumberOfString(value.s)

\* v clamped to [0,100] and rounded to two decimals
Clamped(v) == IF v < 0 THEN 0 ELSE IF v > Pct(100) THEN Pct(100) ELSE Round2(v)

\* the progress of the first alias that is numeric, 0 when none is
FirstNumericAlias(job) ==
  IF IsNumeric(job.progress) THEN Clamped(NumericValue(job.progress))
  ELSE IF IsNumeric(job.percent) THEN Clamped(NumericValue(job.percent))
  ELSE IF IsNumeric(job.downloaded) THEN Clamped(NumericValue(job.downloaded))
  ELSE 0

\* C36: the canonical progress is that of the first of the aliases progress,
\* percent, downloaded whose value is a number or a string that parses as one,
\* clamped to [0,100]; an alias that is present but does not parse is passed
\* over, and the result is 0 only when no alias is numeric.
ProgressFromFirstNumericAlias ==
  (call.pc = "done" /\ call.op = "normalizeJob.progress") =>
    call.progress = FirstNumericAlias(call.job)

\* C37: for a queue that starts empty and is not restarted, in every reachable
\* state an item has an entry in the poller registry (activeDownloads) if and
\* only if its status is downloading.
PollerIffDownloading ==
  \A k \in 1..Len(queue) :
    (activeDownloads[queue[k].id] # 0) <=> (queue[k].status = "downloading")

\* an item that was downloading has been paused and its entry is gone, while a
\* create-job request of an earlier claim of the item is still awaited
PollerIffDownloadingWitness ==
  \E k \in 1..Len(queue) :
    /\ queue[k].status = "paused"
    /\ queue[k].jobId # None
    /\ activeDownloads[queue[k].id] = 0
    /\ creates[k] > 0

\* C38: no polling timer is ever orphaned: every live interval timer is the one
\* recorded in the poller registry for its item (so an item has at most one
\* live timer, and none once it was paused, cancelled, completed or failed).
LiveTimerRecorded(s) ==
  timers[s].live => activeDownloads[timers[s].item] = s

NoOrphanTimer == \A s \in Slots : LiveTimerRecorded(s)

\* the name without its last extension
Stem(name) ==
  IF LastDot(name) > 1 THEN SubSeq(name, 1, LastDot(name) - 1) ELSE name

SidecarWritten == call.pc \in {"completed", "scanned"} /\ call.op = "downloadFile"

\* C39: for every file link (with or without a filename, with or without an
\* extension, a filename ending in .json included) the sidecar path differs
\* from the media file path and is the media file's name with the extension
\* .json in the same directory, so that the media bytes are still there once
\* the sidecar is written.
SidecarBesideMedia ==
  SidecarWritten =>
    LET name == SubSeq(call.filePath, Len(call.dir) + 2, Len(call.filePath)) IN
    /\ call.metadataPath # call.filePath
    /\ call.metadataPath = join(call.dir, Stem(name) \o <<Dot, "json">>)
    /\ Exists(call.files, call.filePath)
    /\ ContentOf(call.files, call.filePath) = MediaBytes

\* C40: every item that reached completed is listed by a following scan of the
\* download directory, whatever name and extension the file link supplied,
\* with the owner, caption and keywords of the queue item.
CompletedItemsListed ==
  (call.pc = "scanned" /\ call.op = "downloadFile") =>
    \E entry \in call.library :
      /\ entry.path = call.item.localPath
      /\ entry.owner = call.item.owner
      /\ entry.caption = call.item.caption
      /\ entry.keywords = call.item.keywords

====
